---- MODULE Spec2Model ----
(***************************************************************************)
(* Desktop clock app: the wallpaper rotation hook (useWallpaperRotation),  *)
(* its display (Wallpaper.tsx) and the service worker (public/sw.js) with  *)
(* its tiered cache stores and control messages.                           *)
(*                                                                         *)
(* React state updates made in one synchronous stretch of code are taken   *)
(* as one commit, and the effects of a commit run with it.  Every `await`  *)
(* in the source is a point where other handlers may run, and is the       *)
(* boundary between two actions here.                                      *)
(***************************************************************************)
EXTENDS Integers, Sequences, FiniteSets, TLC

\* ---------------------------------------------------------------- bounds

\* loadImages invocations that may be in flight at once
MaxInFlight == 2

\* fetch interceptions that may be in progress at once
MaxFetch == 2

\* cacheWallpapers runs that may be in progress at once
MaxSeed == 2

\* control messages the UI sends in a scripted run
MaxMessages == 2

\* deployments (version tags 1..MaxVersion)
MaxVersion == 2

\* pages (clients) of the origin
MaxClients == 2

\* categories in one call of the resolver
MaxSelected == 3

\* descriptors in one call of the preloader
MaxDescriptors == 3

\* picks of nextImage that are remembered
MaxTicks == 2

\* preloadImages calls of nextImage counted as under way
MaxPreloads == 2

\* seconds up to which the focus timer's set time may be raised
MaxCountdown == 3

\* ------------------------------------------------------- rotation: data

\* The build-time manifest: category -> ordered file names.  "tech" is a
\* category without images (imageCount 0 in WALLPAPER_CATEGORIES).
Categories == {"nature", "kamal", "tech"}

Manifest ==
  [c \in Categories |->
     CASE c = "nature" -> <<"n1.jpg", "n2.jpg">>
       [] c = "kamal"  -> <<"k1.jpg">>
       [] OTHER        -> <<>>]

\* What the settings collaborator may hand to the hook as `categories`.
Selections ==
  { <<>>, <<"nature">>, <<"kamal">>, <<"tech">>,
    <<"nature", "kamal">>, <<"tech", "nature">> }

RotationIntervals == {30000, 60000}

\* currentImage = null
NullImage == [category |-> "", filename |-> ""]

\* error = null
NoError == "null"

ErrNoValid  == "No valid images found: <errors>"
ErrNoImages == "No images found for selected categories"
ErrFailed   == "Failed to load wallpaper images: <message>"

\* The manifest's list for a category id; none for an id it does not hold.
ManifestOf(c) == IF c \in DOMAIN Manifest THEN Manifest[c] ELSE <<>>

\* The WallpaperImage descriptors of one category, in manifest order.
CategoryImages(c) ==
  [i \in 1..Len(ManifestOf(c)) |-> [category |-> c, filename |-> ManifestOf(c)[i]]]

\* s without the elements that occur earlier in it.
Dedup(s) == SelectSeq([i \in 1..Len(s) |-> [at |-> i, v |-> s[i]]],
                      LAMBDA e : \A j \in 1..(e.at - 1) : s[j] # e.v)

RECURSIVE ResolveImages_Dedup(_)
\* ResolveImages with an image that was resolved already left out.
ResolveImages_Dedup(cats) ==
  IF cats = <<>> THEN <<>>
  ELSE LET all == CategoryImages(Head(cats)) \o ResolveImages_Dedup(Tail(cats))
           kept == Dedup(all) IN
         [i \in 1..Len(kept) |-> kept[i].v]

RECURSIVE ResolveImages(_)
ResolveImages(cats) ==
  IF cats = <<>> THEN <<>>
  ELSE CategoryImages(Head(cats)) \o ResolveImages(Tail(cats))

ResolveErrors(cats) == SelectSeq(cats, LAMBDA c : ManifestOf(c) = <<>>)

\* getImagesWithFallback(categories): { images, errors }
getImagesWithFallback(cats) ==
  [images |-> ResolveImages(cats), errors |-> ResolveErrors(cats)]

\* The elements of a sequence.
Range(s) == {s[i] : i \in 1..Len(s)}

\* ------------------------------------------------------ rotation: state

VARIABLES
  categories,        \* prop: the selected categories
  rotationInterval,  \* prop: the rotation interval in ms
  enabled,           \* prop: rotation enabled
  availableImages,   \* useState<WallpaperImage[]>([])
  currentImage,      \* useState<WallpaperImage | null>(null)
  currentIndex,      \* useState(0)
  isLoading,         \* useState(true)
  error,             \* useState<string | null>(null)
  timerArmed,        \* whether the interval effect holds a setInterval
  loads,             \* the loadImages invocations suspended at an await
  tickLog,           \* the random indexes nextImage has picked, oldest first
  preloads,          \* preloadImages calls of nextImage under way, and what
                     \* the preload of loadImages last reported
  probe,             \* a call of the resolver or the preloader on its own
  state,             \* FocusTimer: useState<FocusTimerState>
  intervalRef,       \* FocusTimer: intervalRef.current, null or a live interval
  timerLog,          \* FocusTimer: the handler that ran last, the total the
                     \* countdown was started with and its ticks since
  storedSettings,    \* useLocalStorage: useState<AppSettings>(DEFAULT_SETTINGS)
  isLoaded,          \* useLocalStorage: useState(false)
  appState,          \* App: useState<AppState>
  isInitialLoad,     \* App: useState(true)
  settingsPanelOpen  \* App: useState(false)

histVars == <<tickLog, preloads, probe>>

timerVars == <<state, intervalRef, timerLog>>

appVars == <<storedSettings, isLoaded, appState, isInitialLoad, settingsPanelOpen>>

uiVars == <<timerVars, appVars>>

rotVars ==
  <<categories, rotationInterval, enabled, availableImages, currentImage,
    currentIndex, isLoading, error, timerArmed, loads, histVars, uiVars>>

\* No preloadImages call of nextImage is under way, none has ended.
NoPreloads == [pending |-> 0, warned |-> FALSE]

\* No call has been made.
NoProbe == [fn |-> "none", categories |-> <<>>, descriptors |-> <<>>,
            outcomes |-> <<>>, images |-> <<>>, errors |-> <<>>,
            settled |-> "none"]

\* FocusTimer after mount: the useState initial value, no interval.
TimerMounted ==
  /\ state = [hours |-> 0, minutes |-> 25, seconds |-> 0, isRunning |-> FALSE,
              timeRemaining |-> 0, showAlarm |-> FALSE]
  /\ intervalRef = "null"
  /\ timerLog = [handler |-> "none", started |-> 0, ticks |-> 0]

\* export const DEFAULT_SETTINGS (the fields the display depends on)
DEFAULT_SETTINGS ==
  [clockEnabled |-> TRUE, wallpaperEnabled |-> TRUE,
   selectedCategories |-> <<"kamal", "nature">>, rotationInterval |-> 60000,
   timeFormat |-> "12h", displayMode |-> "digital-clock"]

\* App after mount, before the settings are loaded.
AppMounted ==
  /\ storedSettings = DEFAULT_SETTINGS
  /\ isLoaded = FALSE
  /\ appState = DEFAULT_SETTINGS
  /\ isInitialLoad = TRUE
  /\ settingsPanelOpen = FALSE

\* Nothing has ticked, nothing was preloaded.
NoHistory ==
  /\ tickLog = <<>>
  /\ preloads = NoPreloads
  /\ probe = NoProbe
  /\ TimerMounted
  /\ AppMounted

hasImages == Len(availableImages) > 0

\* The interval effect with `availableImages.length === 0` as its test.
IntervalEffect_AnyImages(en, images) == en /\ Len(images) > 0

\* The interval effect: a timer is armed by the effect unless it returns early.
IntervalEffect(en, images) == en /\ Len(images) > 1

\* The message of the images.length = 0 branch.
EmptyMessage(errors) == IF Len(errors) > 0 THEN ErrNoValid ELSE ErrNoImages

\* s without its p-th element.
RemoveAt(s, p) == [i \in 1..(Len(s) - 1) |-> IF i < p THEN s[i] ELSE s[i + 1]]

\* What Wallpaper.tsx renders.
Display ==
  IF ~enabled THEN "nothing"
  ELSE IF isLoading THEN "loading"
  ELSE IF error # NoError THEN "error-panel"
  ELSE IF ~hasImages \/ currentImage = NullImage
       THEN (IF Len(categories) = 0 THEN "no-categories-selected"
             ELSE "no-images-found")
  ELSE "image"

\* The hook after mount: the load effect has called loadImages() once.
RotInit ==
  /\ categories \in Selections
  /\ rotationInterval \in RotationIntervals
  /\ enabled \in BOOLEAN
  /\ availableImages = <<>>
  /\ currentImage = NullImage
  /\ currentIndex = 0
  /\ error = NoError
  /\ timerArmed = FALSE
  /\ NoHistory
  /\ IF Len(categories) = 0
       THEN isLoading = FALSE /\ loads = <<>>
       ELSE isLoading = TRUE
            /\ loads = <<[cats |-> categories, pc |-> "resolving"]>>

\* LoadImagesStart with setError(null) left out of the empty-selection branch.
LoadImagesStart_KeepError(cats) ==
  IF Len(cats) = 0
    THEN /\ availableImages' = <<>>
         /\ currentImage' = NullImage
         /\ currentIndex' = 0
         /\ isLoading' = FALSE
         /\ timerArmed' = IntervalEffect(enabled, <<>>)
         /\ UNCHANGED <<loads, error>>
    ELSE /\ Len(loads) < MaxInFlight
         /\ isLoading' = TRUE
         /\ error' = NoError
         /\ loads' = Append(loads, [cats |-> cats, pc |-> "resolving"])
         /\ UNCHANGED <<availableImages, currentImage, currentIndex, timerArmed>>

\* loadImages(), up to its first await, with `cats` as the categories.
LoadImagesStart(cats) ==
  IF Len(cats) = 0
    THEN /\ availableImages' = <<>>
         /\ currentImage' = NullImage
         /\ currentIndex' = 0
         /\ isLoading' = FALSE
         /\ error' = NoError
         /\ timerArmed' = IntervalEffect(enabled, <<>>)
         /\ UNCHANGED loads
    ELSE /\ Len(loads) < MaxInFlight
         /\ isLoading' = TRUE
         /\ error' = NoError
         /\ loads' = Append(loads, [cats |-> cats, pc |-> "resolving"])
         /\ UNCHANGED <<availableImages, currentImage, currentIndex, timerArmed>>

\* The settings collaborator passes a new category array: loadImages is
\* re-created and the load effect runs it.
ChangeCategories(sel) ==
  /\ sel # categories
  /\ categories' = sel
  /\ LoadImagesStart(sel)
  /\ UNCHANGED <<rotationInterval, enabled>>

\* The branch taken when the resolver returned no image: the state updates
\* of the branch and of `finally`.
ResolvedEmpty(p, errors) ==
  /\ error' = EmptyMessage(errors)
  /\ availableImages' = <<>>
  /\ currentImage' = NullImage
  /\ currentIndex' = 0
  /\ isLoading' = FALSE
  /\ timerArmed' = IntervalEffect(enabled, <<>>)
  /\ loads' = RemoveAt(loads, p)

\* ResolvedImages with setCurrentImage(images[randomIndex]) left out.
ResolvedImages_KeepCurrent(p, images, randomIndex) ==
  /\ availableImages' = images
  /\ currentIndex' = randomIndex
  /\ timerArmed' = IntervalEffect(enabled, images)
  /\ loads' = [loads EXCEPT ![p].pc = "preloading"]
  /\ UNCHANGED <<isLoading, error, currentImage>>

\* The branch taken when the resolver returned images: the state updates up
\* to `await preloadImages(...)`.  randomIndex is the 0-based random pick.
ResolvedImages(p, images, randomIndex) ==
  /\ availableImages' = images
  /\ currentImage' = images[randomIndex + 1]
  /\ currentIndex' = randomIndex
  /\ timerArmed' = IntervalEffect(enabled, images)
  /\ loads' = [loads EXCEPT ![p].pc = "preloading"]
  /\ UNCHANGED <<isLoading, error>>

\* ResolveReturn with any failed category treated as no image at all.
ResolveReturn_StrictErrors(p) ==
  /\ p \in 1..Len(loads)
  /\ loads[p].pc = "resolving"
  /\ LET r == getImagesWithFallback(loads[p].cats) IN
       IF Len(r.images) = 0 \/ Len(r.errors) > 0
         THEN ResolvedEmpty(p, r.errors)
         ELSE \E randomIndex \in 0..(Len(r.images) - 1) :
                ResolvedImages(p, r.images, randomIndex)
  /\ UNCHANGED <<categories, rotationInterval, enabled>>

\* `await getImagesWithFallback(categories)` returns to invocation p.
ResolveReturn(p) ==
  /\ p \in 1..Len(loads)
  /\ loads[p].pc = "resolving"
  /\ LET r == getImagesWithFallback(loads[p].cats) IN
       IF Len(r.images) = 0
         THEN ResolvedEmpty(p, r.errors)
         ELSE \E randomIndex \in 0..(Len(r.images) - 1) :
                ResolvedImages(p, r.images, randomIndex)
  /\ UNCHANGED <<categories, rotationInterval, enabled>>

\* ResolveThrow with setAvailableImages([]) left out of the catch block.
ResolveThrow_KeepImages(p) ==
  /\ p \in 1..Len(loads)
  /\ loads[p].pc = "resolving"
  /\ error' = ErrFailed
  /\ currentImage' = NullImage
  /\ currentIndex' = 0
  /\ isLoading' = FALSE
  /\ loads' = RemoveAt(loads, p)
  /\ UNCHANGED <<categories, rotationInterval, enabled, availableImages,
                 timerArmed>>

\* `await getImagesWithFallback(categories)` throws in invocation p: the
\* catch block and `finally`.
ResolveThrow(p) ==
  /\ p \in 1..Len(loads)
  /\ loads[p].pc = "resolving"
  /\ error' = ErrFailed
  /\ availableImages' = <<>>
  /\ currentImage' = NullImage
  /\ currentIndex' = 0
  /\ isLoading' = FALSE
  /\ timerArmed' = IntervalEffect(enabled, <<>>)
  /\ loads' = RemoveAt(loads, p)
  /\ UNCHANGED <<categories, rotationInterval, enabled>>

\* PreloadSettle without the inner try/catch: the preload's rejection reaches
\* the catch block of loadImages.
PreloadSettle_Uncaught(p) ==
  /\ p \in 1..Len(loads)
  /\ loads[p].pc = "preloading"
  /\ error' = ErrFailed
  /\ availableImages' = <<>>
  /\ currentImage' = NullImage
  /\ currentIndex' = 0
  /\ isLoading' = FALSE
  /\ timerArmed' = IntervalEffect(enabled, <<>>)
  /\ loads' = RemoveAt(loads, p)
  /\ UNCHANGED <<categories, rotationInterval, enabled>>

\* PreloadSettle without the `finally` block's setIsLoading(false).
PreloadSettle_NoFinally(p) ==
  /\ p \in 1..Len(loads)
  /\ loads[p].pc = "preloading"
  /\ loads' = RemoveAt(loads, p)
  /\ UNCHANGED <<categories, rotationInterval, enabled, availableImages,
                 currentImage, currentIndex, error, timerArmed, isLoading>>

\* `await preloadImages(...)` settles in invocation p (resolved, or rejected
\* and caught): `finally` runs.
PreloadSettle(p) ==
  /\ p \in 1..Len(loads)
  /\ loads[p].pc = "preloading"
  /\ isLoading' = FALSE
  /\ loads' = RemoveAt(loads, p)
  /\ UNCHANGED <<categories, rotationInterval, enabled, availableImages,
                 currentImage, currentIndex, error, timerArmed>>

\* nextImage with the index of the image on display excluded from the pick.
nextImage_NoRepeat(randomIndex) ==
  /\ Len(availableImages) # 0
  /\ randomIndex \in 0..(Len(availableImages) - 1)
  /\ randomIndex # currentIndex
  /\ currentImage' = availableImages[randomIndex + 1]
  /\ currentIndex' = randomIndex

\* nextImage(): the state updates of one call, randomIndex the random pick.
nextImage(randomIndex) ==
  /\ Len(availableImages) # 0
  /\ randomIndex \in 0..(Len(availableImages) - 1)
  /\ currentImage' = availableImages[randomIndex + 1]
  /\ currentIndex' = randomIndex

\* The interval fires: setInterval(nextImage, rotationInterval).
Tick ==
  /\ timerArmed
  /\ \E randomIndex \in 0..(Len(availableImages) - 1) : nextImage(randomIndex)
  /\ UNCHANGED <<categories, rotationInterval, enabled, availableImages,
                 isLoading, error, timerArmed, loads>>

\* The `enabled` prop changes: the interval effect runs again.
SetEnabled(b) ==
  /\ b # enabled
  /\ enabled' = b
  /\ timerArmed' = IntervalEffect(b, availableImages)
  /\ UNCHANGED <<categories, rotationInterval, availableImages, currentImage,
                 currentIndex, isLoading, error, loads>>

\* The `rotationInterval` prop changes: the interval effect runs again.
SetRotationInterval(ms) ==
  /\ ms # rotationInterval
  /\ rotationInterval' = ms
  /\ timerArmed' = IntervalEffect(enabled, availableImages)
  /\ UNCHANGED <<categories, enabled, availableImages, currentImage,
                 currentIndex, isLoading, error, loads>>

\* ------------------------------------------- rotation: ticks and preloads

\* How the load of one descriptor ends in the preloader.
PreloadOutcomes == {"loaded", "failed", "timeout"}

RECURSIVE preloadImages(_, _)
\* preloadImages(descriptors): the descriptors whose load succeeded, in the
\* order given; outcomes[i] is how the load of descriptors[i] ended.
preloadImages(descriptors, outcomes) ==
  IF descriptors = <<>> THEN <<>>
  ELSE (IF Head(outcomes) = "loaded" THEN <<Head(descriptors)>> ELSE <<>>)
         \o preloadImages(Tail(descriptors), Tail(outcomes))

\* Math.min(3, images.length)
PreloadCount(images) == IF Len(images) < 3 THEN Len(images) ELSE 3

\* The last MaxTicks picks.
LastTicks(s) == IF Len(s) > MaxTicks THEN Tail(s) ELSE s

\* The picks nextImage has made from the images now available.
TicksSince(images) == IF images # availableImages THEN <<>> ELSE tickLog

\* ResolveReturn, with the history kept.
LoadResolved(p) ==
  /\ ResolveReturn(p)
  /\ tickLog' = TicksSince(availableImages')
  /\ UNCHANGED <<preloads, probe>>

\* ResolveThrow, with the history kept.
LoadFailed(p) ==
  /\ ResolveThrow(p)
  /\ tickLog' = TicksSince(availableImages')
  /\ UNCHANGED <<preloads, probe>>

\* loadImages: `await preloadImages(randomImagesToPreload)` settles for
\* invocation p.  picks are the random preloadIndex values, outcomes how each
\* load ended; a rejection goes to the inner catch.  Either way a warning is
\* all that can come of it, and `finally` runs (PreloadSettle).
LoadPreloadSettle(p) ==
  /\ PreloadSettle(p)
  /\ LET images == getImagesWithFallback(loads[p].cats).images IN
       \E settled \in {"resolved", "rejected"} :
       \E picks \in [1..PreloadCount(images) -> 0..(Len(images) - 1)] :
       \E outcomes \in [1..PreloadCount(images) -> PreloadOutcomes] :
         LET randomImagesToPreload ==
               [i \in 1..PreloadCount(images) |-> images[picks[i] + 1]]
             validImages == preloadImages(randomImagesToPreload, outcomes) IN
           preloads' = [preloads EXCEPT !.warned =
                          \/ settled = "rejected"
                          \/ Len(validImages) < Len(randomImagesToPreload)]
  /\ UNCHANGED <<tickLog, probe>>

\* The interval fires (Tick): nextImage picks, and calls preloadImages on up
\* to two other images without awaiting it.
TimerTick ==
  /\ Tick
  /\ tickLog' = LastTicks(Append(tickLog, currentIndex'))
  /\ preloads' = [preloads EXCEPT !.pending =
                    IF @ < MaxPreloads THEN @ + 1 ELSE MaxPreloads]
  /\ UNCHANGED probe

\* A preloadImages call of nextImage settles: resolved, or rejected and
\* logged by its .catch.
BackgroundPreloadSettle ==
  /\ preloads.pending > 0
  /\ preloads' = [preloads EXCEPT !.pending = @ - 1]
  /\ UNCHANGED <<categories, rotationInterval, enabled, availableImages,
                 currentImage, currentIndex, isLoading, error, timerArmed,
                 loads, tickLog, probe>>

\* SetEnabled and SetRotationInterval, with the history kept.
PropsChange ==
  /\ \/ \E b \in BOOLEAN : SetEnabled(b)
     \/ \E ms \in RotationIntervals : SetRotationInterval(ms)
  /\ UNCHANGED histVars

\* ------------------------------ the resolver and the preloader on their own

\* Sequences over S of length 0..n.
SeqsUpTo(S, n) == UNION {[1..k -> S] : k \in 0..n}

\* Category ids a caller may pass: those of the manifest and one it lacks.
CategoryIds == Categories \cup {"space"}

\* The descriptors of all images of the manifest.
AllImages == Range(ResolveImages(<<"nature", "kamal", "tech">>))

\* A failed or timed-out load rejecting the whole call.
Absorb_Raise(outcome) == IF outcome = "loaded" THEN "kept" ELSE "raised"

\* What the preloader makes of one descriptor's load: the descriptor is kept,
\* or the failure is discarded.
Absorb(outcome) == IF outcome = "loaded" THEN "kept" ELSE "discarded"

\* How the promise of preloadImages settles.
PreloadSettled(outcomes) ==
  IF \E i \in 1..Len(outcomes) : Absorb(outcomes[i]) = "raised"
    THEN "rejected" ELSE "resolved"

\* getImagesWithFallback(cats) is called.
ResolveCall(cats) ==
  /\ probe.fn = "none"
  /\ probe' = [NoProbe EXCEPT !.fn = "resolve", !.categories = cats,
                              !.settled = "pending"]
  /\ UNCHANGED <<categories, rotationInterval, enabled, availableImages,
                 currentImage, currentIndex, isLoading, error, timerArmed,
                 loads, tickLog, preloads>>

\* The call returns { images, errors }.
ResolveSettle ==
  /\ probe.fn = "resolve"
  /\ probe.settled = "pending"
  /\ probe' = [probe EXCEPT
       !.images = getImagesWithFallback(probe.categories).images,
       !.errors = getImagesWithFallback(probe.categories).errors,
       !.settled = "resolved"]
  /\ UNCHANGED <<categories, rotationInterval, enabled, availableImages,
                 currentImage, currentIndex, isLoading, error, timerArmed,
                 loads, tickLog, preloads>>

\* preloadImages(descriptors) is called; outcomes[i] is how the load of
\* descriptors[i] will end.
PreloadCall(descriptors, outcomes) ==
  /\ probe.fn = "none"
  /\ Len(outcomes) = Len(descriptors)
  /\ probe' = [NoProbe EXCEPT !.fn = "preload", !.descriptors = descriptors,
                              !.outcomes = outcomes, !.settled = "pending"]
  /\ UNCHANGED <<categories, rotationInterval, enabled, availableImages,
                 currentImage, currentIndex, isLoading, error, timerArmed,
                 loads, tickLog, preloads>>

\* Every load of the call has ended and its promise settles.
PreloadProbeSettle ==
  /\ probe.fn = "preload"
  /\ probe.settled = "pending"
  /\ probe' = [probe EXCEPT
       !.settled = PreloadSettled(probe.outcomes),
       !.images = IF PreloadSettled(probe.outcomes) = "resolved"
                    THEN preloadImages(probe.descriptors, probe.outcomes)
                    ELSE <<>>]
  /\ UNCHANGED <<categories, rotationInterval, enabled, availableImages,
                 currentImage, currentIndex, isLoading, error, timerArmed,
                 loads, tickLog, preloads>>

\* ============================================ focus timer (FocusTimer.tsx)

\* state.hours * 3600 + state.minutes * 60 + state.seconds
totalSeconds(st) == st.hours * 3600 + st.minutes * 60 + st.seconds

\* The text an input's change event may carry.
InputValues == {"", "abc", "-5", "0", "1", "2", "3", "99"}

\* parseInt(value): an integer, or NaN.
parseInt(value) ==
  CASE value = "-5" -> [nan |-> FALSE, n |-> -5]
    [] value = "0"  -> [nan |-> FALSE, n |-> 0]
    [] value = "1"  -> [nan |-> FALSE, n |-> 1]
    [] value = "2"  -> [nan |-> FALSE, n |-> 2]
    [] value = "3"  -> [nan |-> FALSE, n |-> 3]
    [] value = "99" -> [nan |-> FALSE, n |-> 99]
    [] OTHER        -> [nan |-> TRUE,  n |-> 0]

Min(a, b) == IF a < b THEN a ELSE b
Max(a, b) == IF a > b THEN a ELSE b

\* The largest value of a field: 23 for hours, 59 otherwise.
maxValue(type) == IF type = "hours" THEN 23 ELSE 59

\* Math.max(0, Math.min(maxValue, parseInt(value) || 0))
clampedValue(type, value) ==
  LET numValue == IF parseInt(value).nan THEN 0 ELSE parseInt(value).n IN
    Max(0, Min(maxValue(type), numValue))

TimeFields == {"hours", "minutes", "seconds"}

\* { ...prev, [type]: v }
WithField(st, type, v) ==
  CASE type = "hours"   -> [st EXCEPT !.hours = v]
    [] type = "minutes" -> [st EXCEPT !.minutes = v]
    [] OTHER            -> [st EXCEPT !.seconds = v]

Field(st, type) ==
  CASE type = "hours"   -> st.hours
    [] type = "minutes" -> st.minutes
    [] OTHER            -> st.seconds

\* The set time is changed only to MaxCountdown seconds at most.
Admitted(new) == totalSeconds(new) <= MaxCountdown

\* The effect on [state.isRunning, state.timeRemaining], run with the commit
\* that changed one of them: the cleanup clears the interval of the last
\* run; then a new interval is set while the countdown runs, and otherwise
\* the reference is cleared.  The value is intervalRef.current afterwards.
CountdownEffect(old, new, ref) ==
  IF new.isRunning = old.isRunning /\ new.timeRemaining = old.timeRemaining
    THEN ref
  ELSE IF new.isRunning /\ new.timeRemaining > 0 THEN "live"
  ELSE "null"

\* state and intervalRef after a commit of `new`; `ref` is intervalRef.current
\* as the handler left it.
Commit(new, ref, handler) ==
  /\ state' = new
  /\ intervalRef' = CountdownEffect(state, new, ref)
  /\ timerLog' =
       CASE handler = "start" /\ new # state ->
              [handler |-> handler, started |-> new.timeRemaining, ticks |-> 0]
         [] handler = "tick" -> [timerLog EXCEPT !.handler = handler, !.ticks = @ + 1]
         [] OTHER -> [timerLog EXCEPT !.handler = handler]

\* startTimer without its test for a total of zero.
startTimer_NoZeroCheck ==
  /\ ~state.showAlarm
  /\ ~state.isRunning
  /\ Commit([state EXCEPT !.isRunning = TRUE,
                          !.timeRemaining = totalSeconds(state)],
            intervalRef, "start")

\* The Start button (rendered while no alarm shows and the timer is not
\* running): startTimer.
startTimer ==
  /\ ~state.showAlarm
  /\ ~state.isRunning
  /\ IF totalSeconds(state) = 0
       THEN Commit(state, intervalRef, "start")
       ELSE Commit([state EXCEPT !.isRunning = TRUE,
                                 !.timeRemaining = totalSeconds(state)],
                   intervalRef, "start")

\* The Stop button (rendered while the timer is running): stopTimer.
stopTimer ==
  /\ ~state.showAlarm
  /\ state.isRunning
  /\ Commit([state EXCEPT !.isRunning = FALSE, !.timeRemaining = 0],
            "null", "stop")

\* The Dismiss button of the alarm display: resetTimer.
resetTimer ==
  /\ state.showAlarm
  /\ Commit([state EXCEPT !.isRunning = FALSE, !.timeRemaining = 0,
                          !.showAlarm = FALSE],
            "null", "reset")

\* The interval callback ending the countdown one tick late.
IntervalTick_OffByOne ==
  /\ intervalRef = "live"
  /\ LET newTimeRemaining == state.timeRemaining - 1 IN
       IF newTimeRemaining < 0
         THEN Commit([state EXCEPT !.isRunning = FALSE, !.timeRemaining = 0,
                                   !.showAlarm = TRUE],
                     intervalRef, "tick")
         ELSE Commit([state EXCEPT !.timeRemaining = newTimeRemaining],
                     intervalRef, "tick")

\* The interval set by the effect fires after one second.
IntervalTick ==
  /\ intervalRef = "live"
  /\ LET newTimeRemaining == state.timeRemaining - 1 IN
       IF newTimeRemaining <= 0
         THEN Commit([state EXCEPT !.isRunning = FALSE, !.timeRemaining = 0,
                                   !.showAlarm = TRUE],
                     intervalRef, "tick")
         ELSE Commit([state EXCEPT !.timeRemaining = newTimeRemaining],
                     intervalRef, "tick")

\* onChange of one of the three inputs (rendered while no alarm shows).
handleInputChange(type, value) ==
  /\ ~state.showAlarm
  /\ IF state.isRunning
       THEN Commit(state, intervalRef, "input")
       ELSE /\ Admitted(WithField(state, type, clampedValue(type, value)))
            /\ Commit(WithField(state, type, clampedValue(type, value)),
                      intervalRef, "input")

\* onWheel of one of the three inputs; `throttled` when the last accepted
\* wheel event was less than 100 ms ago.
handleWheel(type, direction, throttled) ==
  /\ ~state.showAlarm
  /\ IF state.isRunning \/ throttled
       THEN Commit(state, intervalRef, "wheel")
       ELSE LET v == IF direction = "up"
                       THEN Min(maxValue(type), Field(state, type) + 1)
                       ELSE Max(0, Field(state, type) - 1) IN
              /\ Admitted(WithField(state, type, v))
              /\ Commit(WithField(state, type, v), intervalRef, "wheel")

\* ======================================= settings (App, Settings.tsx)

\* STORAGE_KEYS.VERSION
CurrentVersion == "1.0.0"

\* What localStorage may hold under STORAGE_KEYS.SETTINGS: nothing, text that
\* is not the settings structure, settings of another version, or settings
\* of this version; displayMode "" stands for a missing displayMode.
StoredItems ==
  {[kind |-> k, version |-> CurrentVersion, data |-> DEFAULT_SETTINGS] :
     k \in {"none", "invalid"}}
  \cup {[kind |-> "settings", version |-> "0.9.0", data |-> DEFAULT_SETTINGS]}
  \cup {[kind |-> "settings", version |-> CurrentVersion,
         data |-> [clockEnabled |-> ce, wallpaperEnabled |-> we,
                   selectedCategories |-> sc, rotationInterval |-> 30000,
                   timeFormat |-> tf, displayMode |-> dm]] :
          ce \in BOOLEAN, we \in BOOLEAN, sc \in {<<>>, <<"nature">>},
          tf \in {"12h", "24h"},
          dm \in {"", "digital-clock", "wallpaper", "focus-mode"}}

\* convertStoredToAppSettings
convertStoredToAppSettings(stored) ==
  [stored EXCEPT !.displayMode =
     IF @ = "" THEN DEFAULT_SETTINGS.displayMode ELSE @]

\* loadSettings: the settings the hook takes from the stored item.
loadSettings(item) ==
  IF item.kind # "settings" \/ item.version # CurrentVersion
    THEN DEFAULT_SETTINGS
    ELSE convertStoredToAppSettings(item.data)

\* { ...settings, ...newSettings }
Merge(settings, newSettings) ==
  [k \in DOMAIN settings |->
     IF k \in DOMAIN newSettings THEN newSettings[k] ELSE settings[k]]

\* The initial load taking the display mode as it was stored.
InitialLoad_AsStored(loaded) == loaded

\* The initial-load branch of App's load effect: the settings that are saved
\* and shown.
InitialLoad(loaded) ==
  Merge(loaded, [displayMode |-> "digital-clock", wallpaperEnabled |-> FALSE])

\* The hook loads the stored item on mount and App's load effect runs for
\* the first time.
LoadSettings(item) ==
  /\ ~isLoaded
  /\ isLoaded' = TRUE
  /\ storedSettings' = InitialLoad(loadSettings(item))
  /\ appState' = InitialLoad(loadSettings(item))
  /\ isInitialLoad' = FALSE
  /\ UNCHANGED settingsPanelOpen

\* handleSettingsChange(newSettings): saveSettings and setAppState, and the
\* load effect's later branch, which copies the stored settings again.
handleSettingsChange(newSettings) ==
  /\ isLoaded
  /\ settingsPanelOpen
  /\ storedSettings' = Merge(storedSettings, newSettings)
  /\ appState' = Merge(storedSettings, newSettings)
  /\ UNCHANGED <<isLoaded, isInitialLoad, settingsPanelOpen>>

\* The Focus Mode checkbox leaving wallpaperEnabled as it is when checked.
FocusModeChange_KeepWallpaper(checked) ==
  IF checked
    THEN [displayMode |-> "focus-mode"]
    ELSE [displayMode |-> "digital-clock"]

\* onChange of the Show Wallpapers checkbox: what it passes on.
ShowWallpapersChange(checked) ==
  IF checked
    THEN [wallpaperEnabled |-> TRUE, displayMode |-> "wallpaper"]
    ELSE [wallpaperEnabled |-> FALSE, displayMode |-> "digital-clock"]

\* onChange of the Focus Mode checkbox: what it passes on.
FocusModeChange(checked) ==
  IF checked
    THEN [wallpaperEnabled |-> FALSE, displayMode |-> "focus-mode"]
    ELSE [displayMode |-> "digital-clock"]

\* The user clicks the Show Wallpapers checkbox.
ToggleShowWallpapers ==
  handleSettingsChange(ShowWallpapersChange(~storedSettings.wallpaperEnabled))

\* The user clicks the Focus Mode checkbox.
ToggleFocusMode ==
  handleSettingsChange(FocusModeChange(storedSettings.displayMode # "focus-mode"))

\* handleCategoryToggle(category, selected)
handleCategoryToggle(category, selected) ==
  LET cur == storedSettings.selectedCategories
      updatedCategories ==
        IF selected
          THEN (IF category \in Range(cur) THEN cur ELSE Append(cur, category))
          ELSE SelectSeq(cur, LAMBDA cat : cat # category) IN
    handleSettingsChange([selectedCategories |-> updatedCategories])

\* handleTimeFormatChange(format)
handleTimeFormatChange(format) == handleSettingsChange([timeFormat |-> format])

\* handleSettingsButtonClick / handleSettingsPanelClose
SetSettingsPanelOpen(open) ==
  /\ isLoaded
  /\ settingsPanelOpen # open
  /\ settingsPanelOpen' = open
  /\ UNCHANGED <<storedSettings, isLoaded, appState, isInitialLoad>>

shouldRenderWallpaper ==
  isLoaded /\ storedSettings.displayMode = "wallpaper" /\ storedSettings.wallpaperEnabled

shouldRenderFocusTimer == isLoaded /\ storedSettings.displayMode = "focus-mode"

\* ================================================= service worker: data

\* Deployment version tags: 'v1' in the source, the next deployment's 'v2'.
Versions == 1..MaxVersion

\* const CACHE_NAME = 'desktop-clock-v1' for the deployment tagged v
CACHE_NAME(v) == [tier |-> "runtime", tag |-> v]

\* const STATIC_CACHE_NAME = 'desktop-clock-static-v1'
STATIC_CACHE_NAME(v) == [tier |-> "static", tag |-> v]

\* const WALLPAPER_CACHE_NAME = 'desktop-clock-wallpapers-v1'
WALLPAPER_CACHE_NAME(v) == [tier |-> "wallpapers", tag |-> v]

\* The three store names of deployment v.
CurrentNames(v) == {CACHE_NAME(v), STATIC_CACHE_NAME(v), WALLPAPER_CACHE_NAME(v)}

\* A store of the same origin that no deployment of this worker names.
ForeignName == [tier |-> "foreign", tag |-> 0]

StoreNames == UNION {CurrentNames(v) : v \in Versions} \cup {ForeignName}

\* Request URLs: the pathname, with the parts the fetch listener looks at.
WallpaperA == [pathname |-> "/wallpapers/nature/a.jpg", first |-> "wallpapers", ext |-> "jpg"]
WallpaperB == [pathname |-> "/wallpapers/nature/b.jpg", first |-> "wallpapers", ext |-> "jpg"]

WallpaperURLs == {WallpaperA, WallpaperB}

Root         == [pathname |-> "/", first |-> "", ext |-> ""]
IndexHtml    == [pathname |-> "/index.html", first |-> "index.html", ext |-> "html"]
BundleJs     == [pathname |-> "/static/js/bundle.js", first |-> "static", ext |-> "js"]
MainCss      == [pathname |-> "/static/css/main.css", first |-> "static", ext |-> "css"]
ManifestJson == [pathname |-> "/manifest.json", first |-> "manifest.json", ext |-> "json"]

\* A document of the app that install does not cache, and an API resource.
AboutHtml == [pathname |-> "/about.html", first |-> "about.html", ext |-> "html"]
ApiTime   == [pathname |-> "/api/time", first |-> "api", ext |-> ""]

\* Files to cache immediately (critical resources)
STATIC_ASSETS == <<Root, IndexHtml, BundleJs, MainCss, ManifestJson>>

\* payload.images of a CACHE_WALLPAPERS message (the src of each image)
Payloads == {<<WallpaperA>>, <<WallpaperA, WallpaperB>>, <<WallpaperB, WallpaperB>>}

\* url.pathname.startsWith('/wallpapers/')
IsWallpaperPath(url) == url.first = "wallpapers"

\* Responses.  `by` names the fetch that produced the response.
NetworkOk(by)   == [ok |-> TRUE,  status |-> 200, by |-> by]

\* new Response('', { status: 404, statusText: 'Wallpaper not available offline' })
Unavailable == [ok |-> FALSE, status |-> 404, by |-> <<"sw", 0>>]

\* a network response with ok = false, handed on as it came
NetworkNotOk(by) == [ok |-> FALSE, status |-> 500, by |-> by]

\* the handler's promise rejected: respondWith gets no response
Rejected == [ok |-> FALSE, status |-> 0, by |-> <<"error", 0>>]

\* no response (yet)
NoResponse == [ok |-> FALSE, status |-> 0, by |-> <<"none", 0>>]

\* What fetch() may do: an ok response, a response that is not ok, a throw.
FetchOutcomes == {"ok", "not-ok", "throw"}

\* A Cache object held by a handler: the name it was opened under, and
\* whether the store of that name is still the one that was opened
\* (caches.delete leaves the object usable but detached).
NoCache == [name |-> [tier |-> "none", tag |-> 0], attached |-> FALSE]

Attached(name) == [name |-> name, attached |-> TRUE]

Detach(cache, deleted) ==
  IF cache.name \in deleted THEN [cache EXCEPT !.attached = FALSE] ELSE cache

\* caches.open(name) on the store list: creates the store when it is absent.
CachesOpen(names, name) ==
  IF name \in Range(names) THEN names ELSE Append(names, name)

HasKey(entries, key) == \E i \in 1..Len(entries) : entries[i].key = key

\* cache.put with the earlier entry of the same key kept.
CachePut_Duplicate(entries, key, resp) ==
  Append(entries, [key |-> key, resp |-> resp])

\* cache.put(key, resp): an entry of the same key is replaced.
CachePut(entries, key, resp) ==
  Append(SelectSeq(entries, LAMBDA e : e.key # key), [key |-> key, resp |-> resp])

\* cache.match(key) on one store's entries.
CacheMatch(entries, key) ==
  IF HasKey(entries, key)
    THEN entries[CHOOSE i \in 1..Len(entries) : entries[i].key = key].resp
    ELSE NoResponse

\* The URLs held by a store.
Keys(entries) == {entries[i].key : i \in 1..Len(entries)}

\* ================================================ service worker: state

VARIABLES
  active,        \* the deployment tag of the active worker
  cacheNames,    \* caches.keys(): the existing stores, in creation order
  cacheEntries,  \* the entries of each store, in insertion order
  fetches,       \* the fetch interceptions in progress
  seeds,         \* the cacheWallpapers(images) runs
  clearing,      \* the clearAllCaches() run
  status,        \* the getCacheStatus() run
  statusReply,   \* the last reply posted on a GET_CACHE_STATUS port
  worker,        \* the next deployment's worker: installed, activating
  clients,       \* each page of the origin: closed, uncontrolled (0) or the
                 \* deployment tag of its controller
  calls,         \* the page's calls of cacheWallpapers, clearServiceWorkerCache
                 \* and getCacheStatus (serviceWorker.ts)
  statusPort,    \* event.ports[0] of the GET_CACHE_STATUS being served (0: none)
  install,       \* the install event of the next deployment's worker
  uiSent,        \* the control messages the UI has sent, in order, each
                 \* with whether every cacheWallpapers run had ended by then
  onceEntries    \* the WALLPAPER entries when a cacheWallpapers run last ended

chanVars == <<calls, statusPort>>

lifeVars == <<clients, install>>

swVars ==
  <<active, cacheNames, cacheEntries, fetches, seeds, clearing, status,
    statusReply, worker, uiSent, onceEntries, chanVars, lifeVars>>

IdleFetch == [pc |-> "idle", url |-> WallpaperA, cache |-> NoCache, reply |-> NoResponse]
IdleSeed == [pc |-> "idle", images |-> <<>>, i |-> 1, cache |-> NoCache, oks |-> {}]
IdleClear == [pc |-> "idle", names |-> {}]
IdleStatus == [pc |-> "idle", names |-> <<>>, counts |-> <<>>]
NoWorker == [installed |-> FALSE, pc |-> "none", names |-> {}]
NoReply == <<[name |-> [tier |-> "none", tag |-> 0], count |-> 0]>>

\* What clients[c] holds besides the version of the worker that controls the
\* client: the client does not exist, or it has no controller.
Closed == -1
Uncontrolled == 0

\* A call slot of the page that has not been used.
NoCall ==
  [kind |-> "none", msg |-> "none", promise |-> "none", value |-> NoReply,
   timer |-> "off", port |-> NoReply, result |-> "none", returned |-> NoReply]

\* No install event has been dispatched.
NoInstall ==
  [shell |-> "none", priority |-> "none", category |-> 1, image |-> 1,
   imagesToCache |-> <<>>, settled |-> "none", skipWaiting |-> FALSE]

\* One page, controlled by the active worker; nothing else going on.
QuietPage ==
  /\ clients = [c \in 1..MaxClients |-> IF c = 1 THEN active ELSE Closed]
  /\ calls = [c \in 1..MaxMessages |-> NoCall]
  /\ statusPort = 0
  /\ install = NoInstall

\* caches.match(key): the first store, in creation order, that holds the key.
CachesMatch(key) ==
  LET holding == SelectSeq(cacheNames, LAMBDA n : HasKey(cacheEntries[n], key)) IN
    IF holding = <<>> THEN NoResponse
    ELSE CacheMatch(cacheEntries[Head(holding)], key)

\* The handlers' Cache objects after caches.delete of the names in `deleted`.
DetachAll(deleted) ==
  /\ fetches' = [f \in DOMAIN fetches |->
                   [fetches[f] EXCEPT !.cache = Detach(@, deleted)]]
  /\ seeds' = [t \in DOMAIN seeds |->
                   [seeds[t] EXCEPT !.cache = Detach(@, deleted)]]

\* ------------------------------------------ fetch listener: wallpapers

\* A GET request for a wallpaper-prefixed URL arrives:
\* event.respondWith(handleWallpaperRequest(request)).
FetchEvent(f, url) ==
  /\ fetches[f].pc \in {"idle", "done"}
  /\ IsWallpaperPath(url)
  /\ fetches' = [fetches EXCEPT ![f] =
                   [pc |-> "w-match", url |-> url, cache |-> NoCache,
                    reply |-> NoResponse]]
  /\ UNCHANGED <<active, cacheNames, cacheEntries, seeds, clearing, status,
                 statusReply>>

\* handleWallpaperRequest: `await caches.match(request)` returns.
WallpaperMatch(f) ==
  /\ fetches[f].pc = "w-match"
  /\ LET cachedResponse == CachesMatch(fetches[f].url) IN
       fetches' = [fetches EXCEPT ![f] =
                     IF cachedResponse # NoResponse
                       THEN [@ EXCEPT !.pc = "done", !.reply = cachedResponse]
                       ELSE [@ EXCEPT !.pc = "w-fetch"]]
  /\ UNCHANGED <<active, cacheNames, cacheEntries, seeds, clearing, status,
                 statusReply>>

\* WallpaperFetch with the catch block rethrowing instead of answering 404.
WallpaperFetch_Rethrow(f, outcome) ==
  /\ fetches[f].pc = "w-fetch"
  /\ IF outcome = "ok"
       THEN /\ cacheNames' = CachesOpen(cacheNames, WALLPAPER_CACHE_NAME(active))
            /\ fetches' = [fetches EXCEPT ![f] =
                 [@ EXCEPT !.pc = "w-put",
                           !.cache = Attached(WALLPAPER_CACHE_NAME(active)),
                           !.reply = NetworkOk(<<"fetch", f>>)]]
       ELSE /\ fetches' = [fetches EXCEPT ![f] =
                 [@ EXCEPT !.pc = "done", !.reply = Rejected]]
            /\ UNCHANGED cacheNames
  /\ UNCHANGED <<active, cacheEntries, seeds, clearing, status, statusReply>>

\* WallpaperFetch with every network response stored, whatever its status.
WallpaperFetch_StoreAll(f, outcome) ==
  /\ fetches[f].pc = "w-fetch"
  /\ IF outcome # "throw"
       THEN /\ cacheNames' = CachesOpen(cacheNames, WALLPAPER_CACHE_NAME(active))
            /\ fetches' = [fetches EXCEPT ![f] =
                 [@ EXCEPT !.pc = "w-put",
                           !.cache = Attached(WALLPAPER_CACHE_NAME(active)),
                           !.reply = IF outcome = "ok"
                                       THEN NetworkOk(<<"fetch", f>>)
                                       ELSE NetworkNotOk(<<"fetch", f>>)]]
       ELSE /\ fetches' = [fetches EXCEPT ![f] =
                 [@ EXCEPT !.pc = "done", !.reply = Unavailable]]
            /\ UNCHANGED cacheNames
  /\ UNCHANGED <<active, cacheEntries, seeds, clearing, status, statusReply>>

\* handleWallpaperRequest: `await fetch(request)` settles.  An ok response
\* is returned once caches.open has resolved, with cache.put left pending;
\* anything else ends in the catch block's 404 response.
WallpaperFetch(f, outcome) ==
  /\ fetches[f].pc = "w-fetch"
  /\ IF outcome = "ok"
       THEN /\ cacheNames' = CachesOpen(cacheNames, WALLPAPER_CACHE_NAME(active))
            /\ fetches' = [fetches EXCEPT ![f] =
                 [@ EXCEPT !.pc = "w-put",
                           !.cache = Attached(WALLPAPER_CACHE_NAME(active)),
                           !.reply = NetworkOk(<<"fetch", f>>)]]
       ELSE /\ fetches' = [fetches EXCEPT ![f] =
                 [@ EXCEPT !.pc = "done", !.reply = Unavailable]]
            /\ UNCHANGED cacheNames
  /\ UNCHANGED <<active, cacheEntries, seeds, clearing, status, statusReply>>

\* handleWallpaperRequest: the pending cache.put(request, clone) lands.
WallpaperPut(f) ==
  /\ fetches[f].pc = "w-put"
  /\ cacheEntries' =
       IF fetches[f].cache.attached
         THEN [cacheEntries EXCEPT ![fetches[f].cache.name] =
                 CachePut(@, fetches[f].url, fetches[f].reply)]
         ELSE cacheEntries
  /\ fetches' = [fetches EXCEPT ![f] = [@ EXCEPT !.pc = "done", !.cache = NoCache]]
  /\ UNCHANGED <<active, cacheNames, seeds, clearing, status, statusReply>>

\* ------------------------------ fetch listener: routing, other handlers

\* if (request.method !== 'GET') return;
Intercepts_AnyMethod(method) == TRUE

Intercepts(method) == method = "GET"

\* The static branch of the listener: .js, .css, '/', .html.
IsStaticPath(url) == url.ext \in {"js", "css", "html"} \/ url.pathname = "/"

\* The handler the listener hands a GET request to.
Route(url) ==
  IF IsWallpaperPath(url) THEN "w-match"
  ELSE IF IsStaticPath(url) THEN "s-match"
  ELSE "n-fetch"

\* The requests pages make: method, URL, mode.
Requests ==
  { [method |-> "GET",  url |-> IndexHtml,    mode |-> "navigate"],
    [method |-> "GET",  url |-> AboutHtml,    mode |-> "navigate"],
    [method |-> "GET",  url |-> BundleJs,     mode |-> "no-cors"],
    [method |-> "GET",  url |-> ManifestJson, mode |-> "cors"],
    [method |-> "GET",  url |-> WallpaperA,   mode |-> "no-cors"],
    [method |-> "POST", url |-> ApiTime,      mode |-> "cors"],
    [method |-> "POST", url |-> AboutHtml,    mode |-> "navigate"] }

\* The fetch listener, every branch: a request of another method is left to
\* the browser (no respondWith), a GET request goes to one of the handlers.
FetchListener(f, request) ==
  /\ fetches[f].pc \in {"idle", "done", "passthrough"}
  /\ fetches' = [fetches EXCEPT ![f] =
       [pc |-> IF Intercepts(request.method) THEN Route(request.url)
                                             ELSE "passthrough",
        url |-> request.url, cache |-> NoCache, reply |-> NoResponse,
        mode |-> request.mode, method |-> request.method]]
  /\ UNCHANGED <<active, cacheNames, cacheEntries, seeds, clearing, status,
                 statusReply>>

\* handleStaticAssetRequest: `await caches.match(request)` returns.
StaticMatch(f) ==
  /\ fetches[f].pc = "s-match"
  /\ LET cachedResponse == CachesMatch(fetches[f].url) IN
       fetches' = [fetches EXCEPT ![f] =
                     IF cachedResponse # NoResponse
                       THEN [@ EXCEPT !.pc = "done", !.reply = cachedResponse]
                       ELSE [@ EXCEPT !.pc = "s-fetch"]]
  /\ UNCHANGED <<active, cacheNames, cacheEntries, seeds, clearing, status,
                 statusReply>>

\* StaticFetch with the catch block rethrowing at once.
StaticFetch_NoFallback(f, outcome) ==
  /\ fetches[f].pc = "s-fetch"
  /\ IF outcome = "ok"
       THEN /\ cacheNames' = CachesOpen(cacheNames, STATIC_CACHE_NAME(active))
            /\ fetches' = [fetches EXCEPT ![f] =
                 [@ EXCEPT !.pc = "s-put",
                           !.cache = Attached(STATIC_CACHE_NAME(active)),
                           !.reply = NetworkOk(<<"fetch", f>>)]]
       ELSE /\ fetches' = [fetches EXCEPT ![f] =
                 [@ EXCEPT !.pc = "done",
                           !.reply = IF outcome = "not-ok"
                                       THEN NetworkNotOk(<<"fetch", f>>)
                                       ELSE Rejected]]
            /\ UNCHANGED cacheNames
  /\ UNCHANGED <<active, cacheEntries, seeds, clearing, status, statusReply>>

\* handleStaticAssetRequest: `await fetch(request)` settles.  An ok response
\* is returned once caches.open has resolved, with cache.put left pending; a
\* response that is not ok is returned as it is; a failed fetch goes to the
\* catch block, which looks for '/index.html' on a navigation and rethrows
\* otherwise.
StaticFetch(f, outcome) ==
  /\ fetches[f].pc = "s-fetch"
  /\ IF outcome = "ok"
       THEN /\ cacheNames' = CachesOpen(cacheNames, STATIC_CACHE_NAME(active))
            /\ fetches' = [fetches EXCEPT ![f] =
                 [@ EXCEPT !.pc = "s-put",
                           !.cache = Attached(STATIC_CACHE_NAME(active)),
                           !.reply = NetworkOk(<<"fetch", f>>)]]
       ELSE /\ fetches' = [fetches EXCEPT ![f] =
                 IF outcome = "not-ok"
                   THEN [@ EXCEPT !.pc = "done",
                                  !.reply = NetworkNotOk(<<"fetch", f>>)]
                 ELSE IF fetches[f].mode = "navigate"
                   THEN [@ EXCEPT !.pc = "s-index"]
                 ELSE [@ EXCEPT !.pc = "done", !.reply = Rejected]]
            /\ UNCHANGED cacheNames
  /\ UNCHANGED <<active, cacheEntries, seeds, clearing, status, statusReply>>

\* handleStaticAssetRequest: the pending cache.put(request, clone) lands.
StaticPut(f) ==
  /\ fetches[f].pc = "s-put"
  /\ cacheEntries' =
       IF fetches[f].cache.attached
         THEN [cacheEntries EXCEPT ![fetches[f].cache.name] =
                 CachePut(@, fetches[f].url, fetches[f].reply)]
         ELSE cacheEntries
  /\ fetches' = [fetches EXCEPT ![f] = [@ EXCEPT !.pc = "done", !.cache = NoCache]]
  /\ UNCHANGED <<active, cacheNames, seeds, clearing, status, statusReply>>

\* handleStaticAssetRequest, catch block of a navigation:
\* `await caches.match('/index.html')` returns; without it the error is
\* thrown again.
StaticIndex(f) ==
  /\ fetches[f].pc = "s-index"
  /\ LET cachedIndex == CachesMatch(IndexHtml) IN
       fetches' = [fetches EXCEPT ![f] =
                     [@ EXCEPT !.pc = "done",
                               !.reply = IF cachedIndex # NoResponse
                                           THEN cachedIndex ELSE Rejected]]
  /\ UNCHANGED <<active, cacheNames, cacheEntries, seeds, clearing, status,
                 statusReply>>

\* NetworkFirstFetch with the response stored whatever its status.
NetworkFirstFetch_StoreAll(f, outcome) ==
  /\ fetches[f].pc = "n-fetch"
  /\ IF outcome \in {"ok", "not-ok"}
       THEN /\ cacheNames' = CachesOpen(cacheNames, CACHE_NAME(active))
            /\ fetches' = [fetches EXCEPT ![f] =
                 [@ EXCEPT !.pc = "n-put",
                           !.cache = Attached(CACHE_NAME(active)),
                           !.reply = IF outcome = "ok"
                                       THEN NetworkOk(<<"fetch", f>>)
                                       ELSE NetworkNotOk(<<"fetch", f>>)]]
       ELSE /\ fetches' = [fetches EXCEPT ![f] = [@ EXCEPT !.pc = "n-match"]]
            /\ UNCHANGED cacheNames
  /\ UNCHANGED <<active, cacheEntries, seeds, clearing, status, statusReply>>

\* handleNetworkFirstRequest: `await fetch(request)` settles.  An ok response
\* is returned once caches.open(CACHE_NAME) has resolved, with cache.put left
\* pending; a response that is not ok is returned as it is; a failed fetch
\* goes to the catch block.
NetworkFirstFetch(f, outcome) ==
  /\ fetches[f].pc = "n-fetch"
  /\ IF outcome = "ok"
       THEN /\ cacheNames' = CachesOpen(cacheNames, CACHE_NAME(active))
            /\ fetches' = [fetches EXCEPT ![f] =
                 [@ EXCEPT !.pc = "n-put",
                           !.cache = Attached(CACHE_NAME(active)),
                           !.reply = NetworkOk(<<"fetch", f>>)]]
       ELSE /\ fetches' = [fetches EXCEPT ![f] =
                 IF outcome = "not-ok"
                   THEN [@ EXCEPT !.pc = "done",
                                  !.reply = NetworkNotOk(<<"fetch", f>>)]
                   ELSE [@ EXCEPT !.pc = "n-match"]]
            /\ UNCHANGED cacheNames
  /\ UNCHANGED <<active, cacheEntries, seeds, clearing, status, statusReply>>

\* handleNetworkFirstRequest: the pending cache.put(request, clone) lands.
NetworkFirstPut(f) ==
  /\ fetches[f].pc = "n-put"
  /\ cacheEntries' =
       IF fetches[f].cache.attached
         THEN [cacheEntries EXCEPT ![fetches[f].cache.name] =
                 CachePut(@, fetches[f].url, fetches[f].reply)]
         ELSE cacheEntries
  /\ fetches' = [fetches EXCEPT ![f] = [@ EXCEPT !.pc = "done", !.cache = NoCache]]
  /\ UNCHANGED <<active, cacheNames, seeds, clearing, status, statusReply>>

\* handleNetworkFirstRequest, catch block: `await caches.match(request)`
\* returns; without a cached response the error is thrown again.
NetworkFirstMatch(f) ==
  /\ fetches[f].pc = "n-match"
  /\ LET cachedResponse == CachesMatch(fetches[f].url) IN
       fetches' = [fetches EXCEPT ![f] =
                     [@ EXCEPT !.pc = "done",
                               !.reply = IF cachedResponse # NoResponse
                                           THEN cachedResponse ELSE Rejected]]
  /\ UNCHANGED <<active, cacheNames, cacheEntries, seeds, clearing, status,
                 statusReply>>

\* --------------------------------------------- message listener: tasks

\* case 'CACHE_WALLPAPERS': event.waitUntil(cacheWallpapers(payload.images))
CacheWallpapersMessage(t, images) ==
  /\ seeds[t].pc \in {"idle", "done"}
  /\ seeds' = [seeds EXCEPT ![t] =
                 [pc |-> "open", images |-> images, i |-> 1, cache |-> NoCache,
                  oks |-> {}]]
  /\ UNCHANGED <<active, cacheNames, cacheEntries, fetches, clearing, status,
                 statusReply>>

\* SeedOpen with the runtime store opened in place of the wallpaper store.
SeedOpen_Runtime(t) ==
  /\ seeds[t].pc = "open"
  /\ cacheNames' = CachesOpen(cacheNames, CACHE_NAME(active))
  /\ seeds' = [seeds EXCEPT ![t] =
                 [@ EXCEPT !.pc = "loop", !.cache = Attached(CACHE_NAME(active))]]
  /\ UNCHANGED <<active, cacheEntries, fetches, clearing, status, statusReply>>

\* cacheWallpapers: `await caches.open(WALLPAPER_CACHE_NAME)` returns.
SeedOpen(t) ==
  /\ seeds[t].pc = "open"
  /\ cacheNames' = CachesOpen(cacheNames, WALLPAPER_CACHE_NAME(active))
  /\ seeds' = [seeds EXCEPT ![t] =
                 [@ EXCEPT !.pc = "loop",
                           !.cache = Attached(WALLPAPER_CACHE_NAME(active))]]
  /\ UNCHANGED <<active, cacheEntries, fetches, clearing, status, statusReply>>

\* cacheWallpapers: one turn of the loop.  `await fetch(image.src)` settles
\* and, for an ok response, `await cache.put(image.src, response)` lands.
SeedImage(t, outcome) ==
  /\ seeds[t].pc = "loop"
  /\ seeds[t].i <= Len(seeds[t].images)
  /\ LET src == seeds[t].images[seeds[t].i] IN
       /\ cacheEntries' =
            IF outcome = "ok" /\ seeds[t].cache.attached
              THEN [cacheEntries EXCEPT ![seeds[t].cache.name] =
                      CachePut(@, src, NetworkOk(<<"seed", t>>))]
              ELSE cacheEntries
       /\ seeds' = [seeds EXCEPT ![t] =
            [@ EXCEPT !.i = @ + 1,
                      !.oks = IF outcome = "ok" THEN @ \cup {seeds[t].i} ELSE @]]
  /\ UNCHANGED <<active, cacheNames, fetches, clearing, status, statusReply>>

\* cacheWallpapers: the loop is over and the run ends.
SeedEnd(t) ==
  /\ seeds[t].pc = "loop"
  /\ seeds[t].i > Len(seeds[t].images)
  /\ seeds' = [seeds EXCEPT ![t] = [@ EXCEPT !.pc = "done", !.cache = NoCache]]
  /\ UNCHANGED <<active, cacheNames, cacheEntries, fetches, clearing, status,
                 statusReply>>

\* case 'CLEAR_CACHE': event.waitUntil(clearAllCaches())
ClearCacheMessage ==
  /\ clearing.pc = "idle"
  /\ clearing' = [pc |-> "keys", names |-> {}]
  /\ UNCHANGED <<active, cacheNames, cacheEntries, fetches, seeds, status,
                 statusReply>>

\* clearAllCaches: `await caches.keys()` returns.  With no store to delete
\* `await Promise.all([])` resumes in the same turn and the run is over.
ClearKeys ==
  /\ clearing.pc = "keys"
  /\ clearing' = IF cacheNames = <<>>
                   THEN IdleClear
                   ELSE [pc |-> "delete", names |-> Range(cacheNames)]
  /\ UNCHANGED <<active, cacheNames, cacheEntries, fetches, seeds, status,
                 statusReply>>

\* clearAllCaches: `await Promise.all(cacheNames.map(name => caches.delete(name)))`
ClearDelete ==
  /\ clearing.pc = "delete"
  /\ cacheNames' = SelectSeq(cacheNames, LAMBDA n : n \notin clearing.names)
  /\ cacheEntries' = [n \in StoreNames |->
                        IF n \in clearing.names THEN <<>> ELSE cacheEntries[n]]
  /\ DetachAll(clearing.names)
  /\ clearing' = IdleClear
  /\ UNCHANGED <<active, status, statusReply>>

\* case 'GET_CACHE_STATUS': event.waitUntil(getCacheStatus().then(...))
GetCacheStatusMessage ==
  /\ status.pc = "idle"
  /\ status' = [pc |-> "keys", names |-> <<>>, counts |-> <<>>]
  /\ UNCHANGED <<active, cacheNames, cacheEntries, fetches, seeds, clearing,
                 statusReply>>

\* getCacheStatus: `await caches.keys()` returns.
StatusKeys ==
  /\ status.pc = "keys"
  /\ status' = [pc |-> "count", names |-> cacheNames, counts |-> <<>>]
  /\ UNCHANGED <<active, cacheNames, cacheEntries, fetches, seeds, clearing,
                 statusReply>>

\* getCacheStatus: one turn of the loop, `await caches.open(cacheName)` and
\* `await cache.keys()`: status[cacheName] = keys.length.
StatusCount ==
  /\ status.pc = "count"
  /\ status.names # <<>>
  /\ LET cacheName == Head(status.names) IN
       /\ cacheNames' = CachesOpen(cacheNames, cacheName)
       /\ status' = [status EXCEPT
            !.names = Tail(@),
            !.counts = Append(@, [name |-> cacheName,
                                  count |-> Len(cacheEntries[cacheName])])]
  /\ UNCHANGED <<active, cacheEntries, fetches, seeds, clearing, statusReply>>

\* getCacheStatus returns and event.ports[0].postMessage(status) delivers it.
StatusReply ==
  /\ status.pc = "count"
  /\ status.names = <<>>
  /\ statusReply' = status.counts
  /\ status' = IdleStatus
  /\ UNCHANGED <<active, cacheNames, cacheEntries, fetches, seeds, clearing>>


\* --------------------------------------- control channel (utils/constants.ts)

\* The messages of the channel.  cacheWallpapers, clearServiceWorkerCache and
\* getCacheStatus send the last three; SKIP_WAITING is sent with
\* sendMessageToServiceWorker itself.
MessageTypes == {"SKIP_WAITING", "CACHE_WALLPAPERS", "CLEAR_CACHE", "GET_CACHE_STATUS"}

\* The return value `{}` of getCacheStatus' catch block.
EmptyStatus == <<>>

\* Wrapper without its try/catch.
Wrapper_NoCatch(kind, settled, value) ==
  IF settled = "rejected"
    THEN [result |-> "raised", returned |-> NoReply]
  ELSE IF kind = "GET_CACHE_STATUS"
    THEN [result |-> "resolved", returned |-> value]
  ELSE [result |-> "resolved", returned |-> NoReply]

\* What the caller of cacheWallpapers / clearServiceWorkerCache /
\* getCacheStatus gets once the promise of sendMessageToServiceWorker has
\* settled; a caller of sendMessageToServiceWorker itself gets that promise.
Wrapper(kind, settled, value) ==
  IF kind = "SKIP_WAITING"
    THEN [result |-> IF settled = "rejected" THEN "raised" ELSE "resolved",
          returned |-> value]
  ELSE IF kind = "GET_CACHE_STATUS"
    THEN [result |-> "resolved",
          returned |-> IF settled = "rejected" THEN EmptyStatus ELSE value]
  ELSE [result |-> "resolved", returned |-> NoReply]

\* calls[c] with the promise of sendMessageToServiceWorker settled.
Settle(call, settled, value) ==
  [call EXCEPT !.promise = settled,
               !.value = value,
               !.result = Wrapper(call.kind, settled, value).result,
               !.returned = Wrapper(call.kind, settled, value).returned]

\* The page is client 1; navigator.serviceWorker.controller
HasController == clients[1] \in Versions

\* The page calls one of the functions: sendMessageToServiceWorker posts the
\* message with port2 of a new MessageChannel and arms the 5 s timer, or
\* rejects at once without a controller.
ClientCall(c, kind) ==
  /\ calls[c].kind = "none"
  /\ calls' = [calls EXCEPT ![c] =
       IF HasController
         THEN [NoCall EXCEPT !.kind = kind, !.msg = "in-transit",
                             !.promise = "pending", !.timer = "armed",
                             !.result = "pending"]
         ELSE Settle([NoCall EXCEPT !.kind = kind], "rejected", NoReply)]
  /\ UNCHANGED <<active, cacheNames, cacheEntries, fetches, seeds, clearing,
                 status, statusReply, statusPort>>

\* messageChannel.port1.onmessage: resolve(event.data).  A promise that the
\* timer has rejected stays rejected.
PortMessage(c) ==
  /\ calls[c].port # NoReply
  /\ calls' = [calls EXCEPT ![c] =
       IF calls[c].promise = "pending"
         THEN [Settle(@, "resolved", calls[c].port) EXCEPT !.port = NoReply]
         ELSE [@ EXCEPT !.port = NoReply]]
  /\ UNCHANGED <<active, cacheNames, cacheEntries, fetches, seeds, clearing,
                 status, statusReply, statusPort>>

\* Timeout with reject() taking effect on a promise that is already resolved.
Timeout_Overrides(c) ==
  /\ calls[c].timer = "armed"
  /\ calls' = [calls EXCEPT ![c] =
       [Settle(@, "rejected", NoReply) EXCEPT !.timer = "fired"]]
  /\ UNCHANGED <<active, cacheNames, cacheEntries, fetches, seeds, clearing,
                 status, statusReply, statusPort>>

\* setTimeout(..., 5000) fires: reject(new Error('Service Worker message
\* timeout')).  A promise that a reply has resolved stays resolved.
Timeout(c) ==
  /\ calls[c].timer = "armed"
  /\ calls' = [calls EXCEPT ![c] =
       IF calls[c].promise = "pending"
         THEN [Settle(@, "rejected", NoReply) EXCEPT !.timer = "fired"]
         ELSE [@ EXCEPT !.timer = "fired"]]
  /\ UNCHANGED <<active, cacheNames, cacheEntries, fetches, seeds, clearing,
                 status, statusReply, statusPort>>

\* message listener, case 'SKIP_WAITING': self.skipWaiting(); no worker is
\* waiting.
ReceiveSkipWaiting(c) ==
  /\ calls[c].msg = "in-transit"
  /\ calls[c].kind = "SKIP_WAITING"
  /\ calls' = [calls EXCEPT ![c] = [@ EXCEPT !.msg = "received"]]
  /\ UNCHANGED <<active, cacheNames, cacheEntries, fetches, seeds, clearing,
                 status, statusReply, statusPort>>

\* message listener, case 'CACHE_WALLPAPERS', for the message of call c.
ReceiveCacheWallpapers(c, t, images) ==
  /\ calls[c].msg = "in-transit"
  /\ calls[c].kind = "CACHE_WALLPAPERS"
  /\ CacheWallpapersMessage(t, images)
  /\ calls' = [calls EXCEPT ![c] = [@ EXCEPT !.msg = "received"]]
  /\ UNCHANGED statusPort

\* message listener, case 'CLEAR_CACHE', for the message of call c.
ReceiveClearCache(c) ==
  /\ calls[c].msg = "in-transit"
  /\ calls[c].kind = "CLEAR_CACHE"
  /\ ClearCacheMessage
  /\ calls' = [calls EXCEPT ![c] = [@ EXCEPT !.msg = "received"]]
  /\ UNCHANGED statusPort

\* message listener, case 'GET_CACHE_STATUS', for the message of call c: the
\* closure keeps the event, and with it the port that came with the message.
ReceiveGetCacheStatus(c) ==
  /\ calls[c].msg = "in-transit"
  /\ calls[c].kind = "GET_CACHE_STATUS"
  /\ GetCacheStatusMessage
  /\ calls' = [calls EXCEPT ![c] = [@ EXCEPT !.msg = "received"]]
  /\ statusPort' = c

\* A port of another message than the one being answered.
ReplyPort_Other ==
  IF \E c \in 1..MaxMessages : c # statusPort /\ calls[c].msg = "received"
    THEN CHOOSE c \in 1..MaxMessages : c # statusPort /\ calls[c].msg = "received"
    ELSE statusPort

\* event.ports[0] in the closure of the GET_CACHE_STATUS case.
ReplyPort == statusPort

\* getCacheStatus().then(status => event.ports[0].postMessage(status))
PostStatus ==
  /\ StatusReply
  /\ calls' = [calls EXCEPT ![ReplyPort] = [@ EXCEPT !.port = status.counts]]
  /\ statusPort' = 0

\* ------------------------------------------------- install and activate

\* The entries a successful cache.addAll(STATIC_ASSETS) leaves.
StaticShell(by) ==
  [i \in 1..Len(STATIC_ASSETS) |-> [key |-> STATIC_ASSETS[i], resp |-> NetworkOk(by)]]

RECURSIVE PutAll(_, _, _)
\* cache.put of each key of the sequence `keys`, in order.
PutAll(entries, keys, resp) ==
  IF keys = <<>> THEN entries
  ELSE PutAll(CachePut(entries, Head(keys), resp), Tail(keys), resp)

\* ------------------------------------------------ install listener, by step

\* const PRIORITY_WALLPAPER_CATEGORIES
PRIORITY_WALLPAPER_CATEGORIES == <<"nature", "motivational", "common_mass">>

\* const MAX_WALLPAPERS_PER_CATEGORY
MAX_WALLPAPERS_PER_CATEGORY == 5

\* The body of /wallpapers/manifest.json: one category with more images than
\* the install caches, one with a single image, and one that is not a
\* priority category; "common_mass" is not a key.
WallpaperManifest ==
  [c \in {"nature", "motivational", "kamal"} |->
     CASE c = "nature" -> <<"n1.jpg", "n2.jpg", "n3.jpg", "n4.jpg", "n5.jpg", "n6.jpg">>
       [] c = "kamal"  -> <<"k1.jpg">>
       [] OTHER        -> <<"m1.jpg">>]

\* manifest[category] || []
ManifestImages(category) ==
  IF category \in DOMAIN WallpaperManifest THEN WallpaperManifest[category] ELSE <<>>

\* The whole list in place of its first n elements.
Slice_All(s, n) == s

\* categoryImages.slice(0, n)
Slice(s, n) == SubSeq(s, 1, IF Len(s) < n THEN Len(s) ELSE n)

\* `/wallpapers/${category}/${imageName}`
PriorityImageUrl(category, imageName) ==
  [pathname |->
     CASE imageName = "n1.jpg" -> "/wallpapers/nature/n1.jpg"
       [] imageName = "n2.jpg" -> "/wallpapers/nature/n2.jpg"
       [] imageName = "n3.jpg" -> "/wallpapers/nature/n3.jpg"
       [] imageName = "n4.jpg" -> "/wallpapers/nature/n4.jpg"
       [] imageName = "n5.jpg" -> "/wallpapers/nature/n5.jpg"
       [] imageName = "n6.jpg" -> "/wallpapers/nature/n6.jpg"
       [] imageName = "k1.jpg" -> "/wallpapers/kamal/k1.jpg"
       [] OTHER                -> "/wallpapers/motivational/m1.jpg",
   first |-> "wallpapers", ext |-> "jpg"]

\* The install event of the next deployment's worker is dispatched: both
\* members of the Promise.all start.
InstallEvent ==
  /\ active < MaxVersion
  /\ ~worker.installed
  /\ worker.pc = "none"
  /\ install.settled = "none"
  /\ install' = [NoInstall EXCEPT !.shell = "open", !.priority = "open",
                                  !.settled = "pending"]
  /\ UNCHANGED <<active, cacheNames, cacheEntries, fetches, seeds, clearing,
                 status, statusReply, worker>>

\* caches.open(STATIC_CACHE_NAME) resolves.
InstallStaticOpen ==
  /\ install.shell = "open"
  /\ cacheNames' = CachesOpen(cacheNames, STATIC_CACHE_NAME(active + 1))
  /\ install' = [install EXCEPT !.shell = "addAll"]
  /\ UNCHANGED <<active, cacheEntries, fetches, seeds, clearing, status,
                 statusReply, worker>>

\* InstallAddAll storing each asset whose own fetch succeeded.
InstallAddAll_Partial(failed) ==
  /\ install.shell = "addAll"
  /\ cacheEntries' =
       [cacheEntries EXCEPT ![STATIC_CACHE_NAME(active + 1)] =
          PutAll(@, SelectSeq(STATIC_ASSETS, LAMBDA u : u \notin failed),
                 NetworkOk(<<"install", active + 1>>))]
  /\ install' = [install EXCEPT !.shell = IF failed = {} THEN "ok" ELSE "failed"]
  /\ UNCHANGED <<active, cacheNames, fetches, seeds, clearing, status,
                 statusReply, worker>>

\* cache.addAll(STATIC_ASSETS...) settles; `failed` are the assets whose fetch
\* threw or was not ok.  addAll stores all or nothing.
InstallAddAll(failed) ==
  /\ install.shell = "addAll"
  /\ cacheEntries' =
       [cacheEntries EXCEPT ![STATIC_CACHE_NAME(active + 1)] =
          IF failed = {}
            THEN PutAll(@, STATIC_ASSETS, NetworkOk(<<"install", active + 1>>))
            ELSE @]
  /\ install' = [install EXCEPT !.shell = IF failed = {} THEN "ok" ELSE "failed"]
  /\ UNCHANGED <<active, cacheNames, fetches, seeds, clearing, status,
                 statusReply, worker>>

\* cachePriorityWallpapers: the loop moves on to the next category, or ends.
NextCategory(i) ==
  IF i.category < Len(PRIORITY_WALLPAPER_CATEGORIES)
    THEN [i EXCEPT !.priority = "manifest", !.category = @ + 1, !.image = 1,
                   !.imagesToCache = <<>>]
    ELSE [i EXCEPT !.priority = "done", !.image = 1, !.imagesToCache = <<>>]

\* cachePriorityWallpapers: `await caches.open(WALLPAPER_CACHE_NAME)`; a throw
\* goes to the outer catch, which ends the function.
PriorityOpen(opened) ==
  /\ install.priority = "open"
  /\ cacheNames' = IF opened
                     THEN CachesOpen(cacheNames, WALLPAPER_CACHE_NAME(active + 1))
                     ELSE cacheNames
  /\ install' = [install EXCEPT !.priority = IF opened THEN "manifest" ELSE "done"]
  /\ UNCHANGED <<active, cacheEntries, fetches, seeds, clearing, status,
                 statusReply, worker>>

\* cachePriorityWallpapers: `await fetch('/wallpapers/manifest.json')` for the
\* current category settles.
PriorityManifest(outcome) ==
  /\ install.priority = "manifest"
  /\ LET category == PRIORITY_WALLPAPER_CATEGORIES[install.category]
         imagesToCache == Slice(ManifestImages(category), MAX_WALLPAPERS_PER_CATEGORY) IN
       install' = IF outcome = "ok" /\ imagesToCache # <<>>
                    THEN [install EXCEPT !.priority = "image", !.image = 1,
                                         !.imagesToCache = imagesToCache]
                    ELSE NextCategory(install)
  /\ UNCHANGED <<active, cacheNames, cacheEntries, fetches, seeds, clearing,
                 status, statusReply, worker>>

\* cachePriorityWallpapers: `await fetch(imageUrl)` settles, and the put of an
\* ok response with it; anything else is skipped or caught.
PriorityImage(outcome) ==
  /\ install.priority = "image"
  /\ LET category == PRIORITY_WALLPAPER_CATEGORIES[install.category]
         imageUrl == PriorityImageUrl(category, install.imagesToCache[install.image])
         name == WALLPAPER_CACHE_NAME(active + 1) IN
       /\ cacheEntries' =
            IF outcome = "ok"
              THEN [cacheEntries EXCEPT ![name] =
                      CachePut(@, imageUrl, NetworkOk(<<"install", active + 1>>))]
              ELSE cacheEntries
       /\ install' = IF install.image < Len(install.imagesToCache)
                       THEN [install EXCEPT !.image = @ + 1]
                       ELSE NextCategory(install)
  /\ UNCHANGED <<active, cacheNames, fetches, seeds, clearing, status,
                 statusReply, worker>>

\* The chain without its .catch.
InstallOutcome_NoCatch(shell) ==
  IF shell = "ok"
    THEN [settled |-> "resolved", skipWaiting |-> TRUE]
    ELSE [settled |-> "rejected", skipWaiting |-> FALSE]

\* Promise.all(...).then(() => self.skipWaiting()).catch(...): how the promise
\* handed to event.waitUntil settles.
InstallOutcome(shell) ==
  IF shell = "ok"
    THEN [settled |-> "resolved", skipWaiting |-> TRUE]
    ELSE [settled |-> "resolved", skipWaiting |-> FALSE]

\* The promise handed to event.waitUntil settles: when both members of the
\* Promise.all have resolved, or as soon as addAll has rejected
\* (cachePriorityWallpapers itself never rejects).
InstallSettle ==
  /\ install.settled = "pending"
  /\ \/ install.shell = "failed"
     \/ install.shell = "ok" /\ install.priority = "done"
  /\ install' = [install EXCEPT
       !.settled = InstallOutcome(install.shell).settled,
       !.skipWaiting = InstallOutcome(install.shell).skipWaiting]
  /\ worker' = [worker EXCEPT
       !.installed = InstallOutcome(install.shell).settled = "resolved"]
  /\ UNCHANGED <<active, cacheNames, cacheEntries, fetches, seeds, clearing,
                 status, statusReply>>

\* The install listener of the next deployment's worker, run to its end:
\* the STATIC store is opened and holds the whole shell list or nothing of
\* it (cache.addAll), the WALLPAPER store is opened and holds the priority
\* wallpapers whose fetch succeeded.
InstallWorker(shellCached, wallpapers) ==
  /\ active < MaxVersion
  /\ ~worker.installed
  /\ worker.pc = "none"
  /\ LET v == active + 1
         by == <<"install", v>> IN
       /\ cacheNames' = CachesOpen(CachesOpen(cacheNames, STATIC_CACHE_NAME(v)),
                                   WALLPAPER_CACHE_NAME(v))
       /\ cacheEntries' =
            [cacheEntries EXCEPT
               ![STATIC_CACHE_NAME(v)] =
                  IF shellCached THEN PutAll(@, STATIC_ASSETS, NetworkOk(by)) ELSE @,
               ![WALLPAPER_CACHE_NAME(v)] = PutAll(@, wallpapers, NetworkOk(by))]
  /\ worker' = [worker EXCEPT !.installed = TRUE]
  /\ UNCHANGED <<active, fetches, seeds, clearing, status, statusReply>>

\* IsOldCache without the comparison with WALLPAPER_CACHE_NAME.
IsOldCache_NoWallpaper(cacheName, v) ==
  cacheName # CACHE_NAME(v) /\ cacheName # STATIC_CACHE_NAME(v)

\* The activate listener's test for a store to delete.
IsOldCache(cacheName, v) ==
  /\ cacheName # CACHE_NAME(v)
  /\ cacheName # STATIC_CACHE_NAME(v)
  /\ cacheName # WALLPAPER_CACHE_NAME(v)

\* activate listener: `caches.keys()` resolves.
ActivateKeys ==
  /\ worker.installed
  /\ worker.pc = "none"
  /\ worker' = [worker EXCEPT !.pc = "activating", !.names = Range(cacheNames)]
  /\ UNCHANGED <<active, cacheNames, cacheEntries, fetches, seeds, clearing,
                 status, statusReply>>

\* activate listener: the caches.delete calls and clients.claim() resolve,
\* and the worker is the active one.
ActivateDelete ==
  /\ worker.pc = "activating"
  /\ LET v == active + 1
         old == {n \in worker.names : IsOldCache(n, v)} IN
       /\ cacheNames' = SelectSeq(cacheNames, LAMBDA n : n \notin old)
       /\ cacheEntries' = [n \in StoreNames |->
                             IF n \in old THEN <<>> ELSE cacheEntries[n]]
       /\ DetachAll(old)
       /\ active' = v
  /\ worker' = NoWorker
  /\ UNCHANGED <<clearing, status, statusReply>>

\* ------------------------------------------------- clients and activation

\* A page of the origin is opened: it is controlled by the active worker, or
\* by none after a forced reload.
ClientOpen(c, forced) ==
  /\ clients[c] = Closed
  /\ clients' = [clients EXCEPT ![c] = IF forced THEN Uncontrolled ELSE active]
  /\ UNCHANGED <<active, cacheNames, cacheEntries, fetches, seeds, clearing,
                 status, statusReply, worker, install>>

\* A page of the origin is closed.
ClientClose(c) ==
  /\ clients[c] # Closed
  /\ clients' = [clients EXCEPT ![c] = Closed]
  /\ UNCHANGED <<active, cacheNames, cacheEntries, fetches, seeds, clearing,
                 status, statusReply, worker, install>>

\* The install listener run to its end, as InstallWorker, with what it leaves
\* for the activation: self.skipWaiting() is called only after addAll and
\* cachePriorityWallpapers have both resolved.
InstallDone(shellCached, wallpapers) ==
  /\ InstallWorker(shellCached, wallpapers)
  /\ install' = [NoInstall EXCEPT !.settled = InstallOutcome(IF shellCached THEN "ok" ELSE "failed").settled,
                                  !.skipWaiting = InstallOutcome(IF shellCached THEN "ok" ELSE "failed").skipWaiting]
  /\ UNCHANGED clients

\* An installed worker leaves the waiting state when it has called
\* skipWaiting(), or when no client is controlled by the active worker.
CanActivate ==
  install.skipWaiting \/ \A c \in 1..MaxClients : clients[c] # active

\* The activate event is dispatched: ActivateKeys.
ActivateEvent ==
  /\ CanActivate
  /\ ActivateKeys
  /\ UNCHANGED <<clients, install>>

\* Without clients.claim(): the clients that the previous worker controlled
\* go over to the new one, the others stay as they are.
ClientsClaim_ControlledOnly(cs, v) ==
  [c \in 1..MaxClients |-> IF cs[c] \in Versions THEN v ELSE cs[c]]

\* self.clients.claim(): every client of the origin is controlled by the
\* worker of version v.
ClientsClaim(cs, v) ==
  [c \in 1..MaxClients |-> IF cs[c] = Closed THEN Closed ELSE v]

\* The promise handed to the activate event's waitUntil resolves:
\* ActivateDelete, and clients.claim() with it.
ActivateClaim ==
  /\ ActivateDelete
  /\ clients' = ClientsClaim(clients, active + 1)
  /\ install' = NoInstall

\* ======================================================= specifications

vars == <<rotVars, swVars>>

\* The hook mounted with no category selected and left alone.
RotIdle ==
  /\ categories = <<>>
  /\ rotationInterval = 60000
  /\ enabled = TRUE
  /\ availableImages = <<>>
  /\ currentImage = NullImage
  /\ currentIndex = 0
  /\ isLoading = FALSE
  /\ error = NoError
  /\ timerArmed = FALSE
  /\ loads = <<>>
  /\ NoHistory

\* The worker of deployment 1, active, with nothing in progress.  Its stores
\* are empty: either none exists (after CLEAR_CACHE) or the two that install
\* opens do.
SWInit ==
  /\ active = 1
  /\ cacheNames \in {<<>>, <<STATIC_CACHE_NAME(1), WALLPAPER_CACHE_NAME(1)>>}
  /\ cacheEntries = [n \in StoreNames |-> <<>>]
  /\ fetches = [f \in 1..MaxFetch |-> IdleFetch]
  /\ seeds = [t \in 1..MaxSeed |-> IdleSeed]
  /\ clearing = IdleClear
  /\ status = IdleStatus
  /\ statusReply = NoReply
  /\ worker = NoWorker
  /\ QuietPage
  /\ uiSent = <<>>
  /\ onceEntries = <<>>

SWIdle ==
  /\ SWInit
  /\ cacheNames = <<>>

\* The rotation hook, with category changes.
Init == RotInit /\ SWIdle

Next ==
  \/ \E sel \in Selections : ChangeCategories(sel) /\ UNCHANGED <<swVars, histVars, uiVars>>
  \/ \E p \in 1..MaxInFlight : ResolveReturn(p) /\ UNCHANGED <<swVars, histVars, uiVars>>
  \/ \E p \in 1..MaxInFlight : ResolveThrow(p) /\ UNCHANGED <<swVars, histVars, uiVars>>
  \/ \E p \in 1..MaxInFlight : PreloadSettle(p) /\ UNCHANGED <<swVars, histVars, uiVars>>
  \/ Tick /\ UNCHANGED <<swVars, histVars, uiVars>>
  \/ \E b \in BOOLEAN : SetEnabled(b) /\ UNCHANGED <<swVars, histVars, uiVars>>
  \/ \E ms \in RotationIntervals : SetRotationInterval(ms) /\ UNCHANGED <<swVars, histVars, uiVars>>

Spec == Init /\ [][Next]_vars

\* The hook mounted with one selection that is then held: no category change.
MountNext ==
  \/ \E p \in 1..MaxInFlight : ResolveReturn(p) /\ UNCHANGED <<swVars, histVars, uiVars>>
  \/ \E p \in 1..MaxInFlight : ResolveThrow(p) /\ UNCHANGED <<swVars, histVars, uiVars>>
  \/ \E p \in 1..MaxInFlight : PreloadSettle(p) /\ UNCHANGED <<swVars, histVars, uiVars>>
  \/ Tick /\ UNCHANGED <<swVars, histVars, uiVars>>
  \/ \E b \in BOOLEAN : SetEnabled(b) /\ UNCHANGED <<swVars, histVars, uiVars>>
  \/ \E ms \in RotationIntervals : SetRotationInterval(ms) /\ UNCHANGED <<swVars, histVars, uiVars>>

\* The resolver's promise settles, and so does preloadImages' (each image
\* load races a timeout).
MountSpec ==
  /\ Init
  /\ [][MountNext]_vars
  /\ WF_vars((\E p \in 1..MaxInFlight : ResolveReturn(p) \/ ResolveThrow(p))
               /\ UNCHANGED <<swVars, histVars, uiVars>>)
  /\ WF_vars((\E p \in 1..MaxInFlight : PreloadSettle(p)) /\ UNCHANGED <<swVars, histVars, uiVars>>)

\* The active service worker: page fetches and CLEAR_CACHE messages arrive
\* at any time and are handled concurrently.
FetchInit == RotIdle /\ SWInit

FetchRest == UNCHANGED <<rotVars, worker, uiSent, onceEntries, chanVars, lifeVars>>

FetchNext ==
  \/ \E f \in 1..MaxFetch : \E url \in WallpaperURLs : FetchEvent(f, url) /\ FetchRest
  \/ \E f \in 1..MaxFetch : WallpaperMatch(f) /\ FetchRest
  \/ \E f \in 1..MaxFetch : \E outcome \in FetchOutcomes :
       WallpaperFetch(f, outcome) /\ FetchRest
  \/ \E f \in 1..MaxFetch : WallpaperPut(f) /\ FetchRest
  \/ ClearCacheMessage /\ FetchRest
  \/ ClearKeys /\ FetchRest
  \/ ClearDelete /\ FetchRest

FetchSpec == FetchInit /\ [][FetchNext]_vars

\* The UI sends CACHE_WALLPAPERS and GET_CACHE_STATUS messages, MaxMessages
\* in all, to a worker with clean stores and no page fetch in progress.
RunsEnded == \A t \in 1..MaxSeed : seeds[t].pc \in {"idle", "done"}

SendCacheWallpapers(t, images) ==
  /\ Len(uiSent) < MaxMessages
  /\ CacheWallpapersMessage(t, images)
  /\ uiSent' = Append(uiSent, [type |-> "CACHE_WALLPAPERS", images |-> images,
                               settled |-> RunsEnded])
  /\ UNCHANGED <<rotVars, worker, onceEntries, chanVars, lifeVars>>

SendGetCacheStatus ==
  /\ Len(uiSent) < MaxMessages
  /\ GetCacheStatusMessage
  /\ uiSent' = Append(uiSent, [type |-> "GET_CACHE_STATUS", images |-> <<>>,
                               settled |-> RunsEnded])
  /\ UNCHANGED <<rotVars, worker, onceEntries, chanVars, lifeVars>>

\* A cacheWallpapers run ends; the WALLPAPER entries it leaves are noted.
SeedEndNoted(t) ==
  /\ SeedEnd(t)
  /\ onceEntries' = cacheEntries[WALLPAPER_CACHE_NAME(active)]
  /\ UNCHANGED <<rotVars, worker, uiSent, chanVars, lifeVars>>

SeedInit == RotIdle /\ SWInit

SeedRest == UNCHANGED <<rotVars, worker, uiSent, onceEntries, chanVars, lifeVars>>

SeedNext ==
  \/ \E t \in 1..MaxSeed : \E images \in Payloads : SendCacheWallpapers(t, images)
  \/ SendGetCacheStatus
  \/ \E t \in 1..MaxSeed : SeedEndNoted(t)
  \/ \E t \in 1..MaxSeed : SeedOpen(t) /\ SeedRest
  \/ \E t \in 1..MaxSeed : \E outcome \in FetchOutcomes : SeedImage(t, outcome) /\ SeedRest
  \/ StatusKeys /\ SeedRest
  \/ StatusCount /\ SeedRest
  \/ StatusReply /\ SeedRest

SeedSpec == SeedInit /\ [][SeedNext]_vars

\* Deployments: worker 1 is active with whatever its stores hold, and the
\* workers of the later deployments install and activate in turn.
OldWallpapers ==
  { <<>>,
    <<[key |-> WallpaperA, resp |-> NetworkOk(<<"install", 1>>)]>>,
    <<[key |-> WallpaperA, resp |-> NetworkOk(<<"install", 1>>)],
      [key |-> WallpaperB, resp |-> NetworkOk(<<"fetch", 1>>)]>> }

ActivateInit ==
  /\ RotIdle
  /\ active = 1
  /\ cacheNames \in
       { <<STATIC_CACHE_NAME(1), WALLPAPER_CACHE_NAME(1)>>,
         <<STATIC_CACHE_NAME(1), WALLPAPER_CACHE_NAME(1), CACHE_NAME(1)>>,
         <<ForeignName, STATIC_CACHE_NAME(1), WALLPAPER_CACHE_NAME(1)>> }
  /\ \E shell \in {<<>>, StaticShell(<<"install", 1>>)} :
       \E wallpapers \in OldWallpapers :
         cacheEntries =
           [n \in StoreNames |->
              IF n = STATIC_CACHE_NAME(1) THEN shell
              ELSE IF n = WALLPAPER_CACHE_NAME(1) THEN wallpapers
              ELSE <<>>]
  /\ fetches = [f \in 1..MaxFetch |-> IdleFetch]
  /\ seeds = [t \in 1..MaxSeed |-> IdleSeed]
  /\ clearing = IdleClear
  /\ status = IdleStatus
  /\ statusReply = NoReply
  /\ worker = NoWorker
  /\ QuietPage
  /\ uiSent = <<>>
  /\ onceEntries = <<>>

ActivateRest == UNCHANGED <<rotVars, uiSent, onceEntries, chanVars>>

ActivateNext ==
  \/ \E shellCached \in BOOLEAN :
       \E wallpapers \in {<<>>, <<WallpaperA>>, <<WallpaperA, WallpaperB>>} :
         InstallDone(shellCached, wallpapers) /\ ActivateRest
  \/ ActivateEvent /\ ActivateRest
  \/ ActivateClaim /\ ActivateRest
  \/ \E c \in 1..MaxClients : \E forced \in BOOLEAN :
       ClientOpen(c, forced) /\ ActivateRest
  \/ \E c \in 1..MaxClients : ClientClose(c) /\ ActivateRest

ActivateSpec == ActivateInit /\ [][ActivateNext]_vars

\* The active worker after install, answering the pages' requests: every
\* branch of the fetch listener.  A handler that has started runs on.
RouteInit ==
  /\ RotIdle
  /\ active = 1
  /\ cacheNames = <<STATIC_CACHE_NAME(1), WALLPAPER_CACHE_NAME(1)>>
  /\ \E shell \in {<<>>, StaticShell(<<"install", 1>>)} :
       cacheEntries = [n \in StoreNames |->
                         IF n = STATIC_CACHE_NAME(1) THEN shell ELSE <<>>]
  /\ fetches = [f \in 1..MaxFetch |-> IdleFetch]
  /\ seeds = [t \in 1..MaxSeed |-> IdleSeed]
  /\ clearing = IdleClear
  /\ status = IdleStatus
  /\ statusReply = NoReply
  /\ worker = NoWorker
  /\ QuietPage
  /\ uiSent = <<>>
  /\ onceEntries = <<>>

RouteRest == UNCHANGED <<rotVars, worker, uiSent, onceEntries, chanVars, lifeVars>>

HandlerStep ==
  \E f \in 1..MaxFetch :
    \/ WallpaperMatch(f) \/ WallpaperPut(f)
    \/ StaticMatch(f) \/ StaticPut(f) \/ StaticIndex(f)
    \/ NetworkFirstPut(f) \/ NetworkFirstMatch(f)
    \/ \E outcome \in FetchOutcomes :
         WallpaperFetch(f, outcome) \/ StaticFetch(f, outcome)
           \/ NetworkFirstFetch(f, outcome)

RouteNext ==
  \/ \E f \in 1..MaxFetch : \E request \in Requests :
       FetchListener(f, request) /\ RouteRest
  \/ \E f \in 1..MaxFetch : WallpaperMatch(f) /\ RouteRest
  \/ \E f \in 1..MaxFetch : \E outcome \in FetchOutcomes :
       WallpaperFetch(f, outcome) /\ RouteRest
  \/ \E f \in 1..MaxFetch : WallpaperPut(f) /\ RouteRest
  \/ \E f \in 1..MaxFetch : StaticMatch(f) /\ RouteRest
  \/ \E f \in 1..MaxFetch : \E outcome \in FetchOutcomes :
       StaticFetch(f, outcome) /\ RouteRest
  \/ \E f \in 1..MaxFetch : StaticPut(f) /\ RouteRest
  \/ \E f \in 1..MaxFetch : StaticIndex(f) /\ RouteRest
  \/ \E f \in 1..MaxFetch : \E outcome \in FetchOutcomes :
       NetworkFirstFetch(f, outcome) /\ RouteRest
  \/ \E f \in 1..MaxFetch : NetworkFirstPut(f) /\ RouteRest
  \/ \E f \in 1..MaxFetch : NetworkFirstMatch(f) /\ RouteRest

RouteSpec ==
  /\ RouteInit
  /\ [][RouteNext]_vars
  /\ WF_vars(HandlerStep /\ RouteRest)

\* CLEAR_CACHE runs while pages request a wallpaper and '/manifest.json'.
ClearInit == RotIdle /\ SWInit

ClearRequests ==
  {r \in Requests : r.method = "GET" /\ r.url \in {WallpaperA, ManifestJson}}

ClearNext ==
  \/ \E f \in 1..MaxFetch : \E request \in ClearRequests :
       FetchListener(f, request) /\ FetchRest
  \/ \E f \in 1..MaxFetch : WallpaperMatch(f) /\ FetchRest
  \/ \E f \in 1..MaxFetch : \E outcome \in FetchOutcomes :
       WallpaperFetch(f, outcome) /\ FetchRest
  \/ \E f \in 1..MaxFetch : WallpaperPut(f) /\ FetchRest
  \/ \E f \in 1..MaxFetch : \E outcome \in FetchOutcomes :
       NetworkFirstFetch(f, outcome) /\ FetchRest
  \/ \E f \in 1..MaxFetch : NetworkFirstPut(f) /\ FetchRest
  \/ \E f \in 1..MaxFetch : NetworkFirstMatch(f) /\ FetchRest
  \/ ClearCacheMessage /\ FetchRest
  \/ ClearKeys /\ FetchRest
  \/ ClearDelete /\ FetchRest

ClearSpec == ClearInit /\ [][ClearNext]_vars

\* The page calls the messaging functions, MaxMessages times in
\* all, with or without a controller; the worker handles the messages.
ClientInit ==
  /\ RotIdle
  /\ active = 1
  /\ cacheNames \in {<<>>, <<STATIC_CACHE_NAME(1), WALLPAPER_CACHE_NAME(1)>>}
  /\ cacheEntries = [n \in StoreNames |-> <<>>]
  /\ fetches = [f \in 1..MaxFetch |-> IdleFetch]
  /\ seeds = [t \in 1..MaxSeed |-> IdleSeed]
  /\ clearing = IdleClear
  /\ status = IdleStatus
  /\ statusReply = NoReply
  /\ worker = NoWorker
  /\ clients \in {[c \in 1..MaxClients |-> IF c = 1 THEN ctl ELSE Closed] :
                    ctl \in {Uncontrolled, 1}}
  /\ calls = [c \in 1..MaxMessages |-> NoCall]
  /\ statusPort = 0
  /\ install = NoInstall
  /\ uiSent = <<>>
  /\ onceEntries = <<>>

PageRest ==
  UNCHANGED <<rotVars, worker, uiSent, onceEntries, lifeVars>>

WorkerRest ==
  UNCHANGED <<rotVars, worker, uiSent, onceEntries, lifeVars, chanVars>>

ClientNext ==
  \/ \E c \in 1..MaxMessages : \E kind \in MessageTypes :
       ClientCall(c, kind) /\ PageRest
  \/ \E c \in 1..MaxMessages : PortMessage(c) /\ PageRest
  \/ \E c \in 1..MaxMessages : Timeout(c) /\ PageRest
  \/ \E c \in 1..MaxMessages : ReceiveSkipWaiting(c) /\ PageRest
  \/ \E c \in 1..MaxMessages : \E t \in 1..MaxSeed :
       ReceiveCacheWallpapers(c, t, <<WallpaperA>>) /\ PageRest
  \/ \E c \in 1..MaxMessages : ReceiveClearCache(c) /\ PageRest
  \/ \E c \in 1..MaxMessages : ReceiveGetCacheStatus(c) /\ PageRest
  \/ PostStatus /\ PageRest
  \/ \E t \in 1..MaxSeed : SeedOpen(t) /\ WorkerRest
  \/ \E t \in 1..MaxSeed : \E outcome \in FetchOutcomes :
       SeedImage(t, outcome) /\ WorkerRest
  \/ \E t \in 1..MaxSeed : SeedEnd(t) /\ WorkerRest
  \/ ClearKeys /\ WorkerRest
  \/ ClearDelete /\ WorkerRest
  \/ StatusKeys /\ WorkerRest
  \/ StatusCount /\ WorkerRest

ClientSpec == ClientInit /\ [][ClientNext]_vars

\* The install event of a new deployment's worker, step by step, with every
\* outcome of every fetch it makes.
InstallInit == RotIdle /\ SWInit

InstallRest ==
  UNCHANGED <<rotVars, uiSent, onceEntries, chanVars, clients>>

InstallStep ==
  \/ InstallStaticOpen
  \/ \E failed \in SUBSET Range(STATIC_ASSETS) : InstallAddAll(failed)
  \/ \E opened \in BOOLEAN : PriorityOpen(opened)
  \/ \E outcome \in FetchOutcomes : PriorityManifest(outcome)
  \/ \E outcome \in FetchOutcomes : PriorityImage(outcome)
  \/ InstallSettle

InstallNext ==
  \/ InstallEvent /\ InstallRest
  \/ InstallStaticOpen /\ InstallRest
  \/ \E failed \in SUBSET Range(STATIC_ASSETS) : InstallAddAll(failed) /\ InstallRest
  \/ \E opened \in BOOLEAN : PriorityOpen(opened) /\ InstallRest
  \/ \E outcome \in FetchOutcomes : PriorityManifest(outcome) /\ InstallRest
  \/ \E outcome \in FetchOutcomes : PriorityImage(outcome) /\ InstallRest
  \/ InstallSettle /\ InstallRest

\* Every fetch and every store operation settles, and the continuation that
\* waits for it runs.
InstallSpec ==
  InstallInit /\ [][InstallNext]_vars /\ WF_vars(InstallStep /\ InstallRest)

\* Writers of the WALLPAPER store side by side: pages request wallpapers
\* while CACHE_WALLPAPERS runs are under way.
WriteInit == RotIdle /\ SWInit

WriteNext ==
  \/ \E f \in 1..MaxFetch : \E url \in WallpaperURLs : FetchEvent(f, url) /\ FetchRest
  \/ \E f \in 1..MaxFetch : WallpaperMatch(f) /\ FetchRest
  \/ \E f \in 1..MaxFetch : \E outcome \in FetchOutcomes :
       WallpaperFetch(f, outcome) /\ FetchRest
  \/ \E f \in 1..MaxFetch : WallpaperPut(f) /\ FetchRest
  \/ \E t \in 1..MaxSeed : CacheWallpapersMessage(t, <<WallpaperA>>) /\ FetchRest
  \/ \E t \in 1..MaxSeed : SeedOpen(t) /\ FetchRest
  \/ \E t \in 1..MaxSeed : \E outcome \in FetchOutcomes :
       SeedImage(t, outcome) /\ FetchRest
  \/ \E t \in 1..MaxSeed : SeedEnd(t) /\ FetchRest

WriteSpec == WriteInit /\ [][WriteNext]_vars

\* The rotation hook mounted with one selection, with its timer and its
\* preloads: every pick of nextImage and every way a preload can end.
TickInit == RotInit /\ SWIdle

TickNext ==
  \/ \E p \in 1..MaxInFlight : LoadResolved(p) /\ UNCHANGED <<swVars, uiVars>>
  \/ \E p \in 1..MaxInFlight : LoadFailed(p) /\ UNCHANGED <<swVars, uiVars>>
  \/ \E p \in 1..MaxInFlight : LoadPreloadSettle(p) /\ UNCHANGED <<swVars, uiVars>>
  \/ TimerTick /\ UNCHANGED <<swVars, uiVars>>
  \/ BackgroundPreloadSettle /\ UNCHANGED <<swVars, uiVars>>
  \/ PropsChange /\ UNCHANGED <<swVars, uiVars>>

TickSpec == TickInit /\ [][TickNext]_vars

\* One call of the resolver or of the preloader, on every input.
ProbeInit == RotIdle /\ SWIdle

ProbeNext ==
  \/ \E cats \in SeqsUpTo(CategoryIds, MaxSelected) :
       ResolveCall(cats) /\ UNCHANGED <<swVars, uiVars>>
  \/ ResolveSettle /\ UNCHANGED <<swVars, uiVars>>
  \/ \E descriptors \in SeqsUpTo(AllImages, MaxDescriptors) :
       \E outcomes \in [1..Len(descriptors) -> PreloadOutcomes] :
         PreloadCall(descriptors, outcomes) /\ UNCHANGED <<swVars, uiVars>>
  \/ PreloadProbeSettle /\ UNCHANGED <<swVars, uiVars>>

ProbeSpec == ProbeInit /\ [][ProbeNext]_vars

\* Every writer of the stores side by side: the three fetch strategies, a
\* CACHE_WALLPAPERS run and the install of the next deployment's worker.  The
\* install is under way: both stores are open, addAll is pending, and the
\* pass over "nature" has stored its five images.
StoreInit ==
  /\ RotIdle
  /\ active = 1
  /\ cacheNames = <<STATIC_CACHE_NAME(1), WALLPAPER_CACHE_NAME(1),
                    STATIC_CACHE_NAME(2), WALLPAPER_CACHE_NAME(2)>>
  /\ cacheEntries =
       [n \in StoreNames |->
          IF n = WALLPAPER_CACHE_NAME(2)
            THEN [i \in 1..MAX_WALLPAPERS_PER_CATEGORY |->
                    [key |-> PriorityImageUrl("nature", ManifestImages("nature")[i]),
                     resp |-> NetworkOk(<<"install", 2>>)]]
            ELSE <<>>]
  /\ fetches = [f \in 1..MaxFetch |-> IdleFetch]
  /\ seeds = [t \in 1..MaxSeed |-> IdleSeed]
  /\ clearing = IdleClear
  /\ status = IdleStatus
  /\ statusReply = NoReply
  /\ worker = NoWorker
  /\ clients = [c \in 1..MaxClients |-> IF c = 1 THEN active ELSE Closed]
  /\ calls = [c \in 1..MaxMessages |-> NoCall]
  /\ statusPort = 0
  /\ install = [NoInstall EXCEPT !.shell = "addAll", !.priority = "manifest",
                                 !.category = 2, !.settled = "pending"]
  /\ uiSent = <<>>
  /\ onceEntries = <<>>

StoreRequests ==
  {r \in Requests : r.method = "GET" /\ r.url \in {BundleJs, ManifestJson, WallpaperA}}

StoreNext ==
  \/ \E request \in StoreRequests : FetchListener(1, request) /\ FetchRest
  \/ WallpaperMatch(1) /\ FetchRest
  \/ \E outcome \in FetchOutcomes : WallpaperFetch(1, outcome) /\ FetchRest
  \/ WallpaperPut(1) /\ FetchRest
  \/ StaticMatch(1) /\ FetchRest
  \/ \E outcome \in FetchOutcomes : StaticFetch(1, outcome) /\ FetchRest
  \/ StaticPut(1) /\ FetchRest
  \/ \E outcome \in FetchOutcomes : NetworkFirstFetch(1, outcome) /\ FetchRest
  \/ NetworkFirstPut(1) /\ FetchRest
  \/ NetworkFirstMatch(1) /\ FetchRest
  \/ CacheWallpapersMessage(1, <<WallpaperB>>) /\ FetchRest
  \/ SeedOpen(1) /\ FetchRest
  \/ \E outcome \in FetchOutcomes : SeedImage(1, outcome) /\ FetchRest
  \/ SeedEnd(1) /\ FetchRest
  \/ \E failed \in SUBSET Range(STATIC_ASSETS) : InstallAddAll(failed) /\ InstallRest
  \/ \E outcome \in FetchOutcomes : PriorityManifest(outcome) /\ InstallRest
  \/ \E outcome \in FetchOutcomes : PriorityImage(outcome) /\ InstallRest
  \/ InstallSettle /\ InstallRest

StoreSpec == StoreInit /\ [][StoreNext]_vars

\* The focus timer: its buttons, its inputs and its one-second interval.
FocusInit == RotIdle /\ SWIdle

FocusRest == UNCHANGED <<categories, rotationInterval, enabled, availableImages,
                         currentImage, currentIndex, isLoading, error,
                         timerArmed, loads, histVars, appVars, swVars>>

FocusNext ==
  \/ startTimer /\ FocusRest
  \/ stopTimer /\ FocusRest
  \/ resetTimer /\ FocusRest
  \/ IntervalTick /\ FocusRest
  \/ \E type \in TimeFields : \E value \in InputValues :
       handleInputChange(type, value) /\ FocusRest
  \/ \E type \in TimeFields : \E direction \in {"up", "down"} :
       \E throttled \in BOOLEAN :
         handleWheel(type, direction, throttled) /\ FocusRest

\* While an interval is set it fires.
FocusSpec == FocusInit /\ [][FocusNext]_vars /\ WF_vars(IntervalTick /\ FocusRest)

\* The settings from their load on: the panel and its toggles.
SettingsInit == RotIdle /\ SWIdle

SettingsRest == UNCHANGED <<categories, rotationInterval, enabled, availableImages,
                            currentImage, currentIndex, isLoading, error,
                            timerArmed, loads, histVars, timerVars, swVars>>

SettingsNext ==
  \/ \E item \in StoredItems : LoadSettings(item) /\ SettingsRest
  \/ \E open \in BOOLEAN : SetSettingsPanelOpen(open) /\ SettingsRest
  \/ ToggleShowWallpapers /\ SettingsRest
  \/ ToggleFocusMode /\ SettingsRest
  \/ \E category \in {"nature", "kamal"} : \E selected \in BOOLEAN :
       handleCategoryToggle(category, selected) /\ SettingsRest
  \/ \E format \in {"12h", "24h"} : handleTimeFormatChange(format) /\ SettingsRest

SettingsSpec == SettingsInit /\ [][SettingsNext]_vars

\* -------------------------------------------------------- rotation: claims

AnyResolving == \E p \in 1..Len(loads) : loads[p].pc = "resolving"
AnyPreloading == \E p \in 1..Len(loads) : loads[p].pc = "preloading"

Resolvable ==
  Len(categories) > 0 /\ Len(getImagesWithFallback(categories).images) > 0

ReadyWithImage ==
  /\ ~isLoading
  /\ error = NoError
  /\ hasImages
  /\ currentImage \in Range(getImagesWithFallback(categories).images)

ErrorState ==
  /\ error \in {ErrNoValid, ErrNoImages, ErrFailed}
  /\ availableImages = <<>>
  /\ currentImage = NullImage
  /\ ~isLoading

\* C1: mounted with a non-empty selection that resolves to at least one
\* image, the hook eventually is Ready (isLoading false, error null,
\* hasImages) with currentImage one of the images resolved for the
\* selection, unless the resolver threw instead of returning.
C1_EventuallyReady == Resolvable ~> (ReadyWithImage \/ error = ErrFailed)

\* C1 witness: the load of a resolvable selection has run to its end and the
\* hook is Ready.
C1_Witness == Resolvable /\ ReadyWithImage /\ loads = <<>>

\* C2: in every reachable state, a non-empty availableImages holds
\* currentImage.
C2_CurrentInAvailable ==
  Len(availableImages) > 0 => currentImage \in Range(availableImages)

\* C2 witness: the selection has changed since the shown images were
\* resolved, a load is in flight, and a tick has moved the image on.
C2_Witness ==
  /\ Len(availableImages) > 1
  /\ availableImages # getImagesWithFallback(categories).images
  /\ AnyResolving
  /\ currentIndex = 1
  /\ currentImage = availableImages[2]

\* C3 (as claimed): once the resolver has returned images to the only load
\* in flight, isLoading is false, whether or not the preload has settled.
C3_ReadyBeforePreload == (AnyPreloading /\ ~AnyResolving) => ~isLoading

\* C4 (as claimed): a change of the selected categories while the rotation
\* timer is running cancels the timer, so that no tick changes currentImage
\* until the new resolution completes.
C4_ChangeCancelsTimer ==
  [][(timerArmed /\ categories' # categories) => ~timerArmed']_vars

\* C5: the step that selects zero categories yields hasImages false,
\* currentImage null, isLoading false and error null, and the display shows
\* "No wallpaper categories selected", not the error panel.
C5_ZeroCategories ==
  [][(Len(categories') = 0 /\ categories' # categories) =>
       /\ ~hasImages'
       /\ currentImage' = NullImage
       /\ ~isLoading'
       /\ error' = NoError
       /\ ~ErrorState'
       /\ (enabled' => Display' = "no-categories-selected")]_vars

\* C5 witness: zero categories were selected while an earlier load was still
\* in flight, and the display shows the no-categories state.
C5_Witness ==
  /\ Len(categories) = 0
  /\ Len(loads) > 0
  /\ ~hasImages /\ currentImage = NullImage /\ ~isLoading /\ error = NoError
  /\ Display = "no-categories-selected"

\* C6: the step in which a load ends at the resolver (it returned no image,
\* or threw) yields the Error state: a non-empty message, availableImages
\* empty, currentImage null, isLoading false.
C6_UnresolvableIsError ==
  [][\A p \in 1..Len(loads) :
       (loads[p].pc = "resolving" /\ loads' = RemoveAt(loads, p))
         => ErrorState']_vars

\* C6 witness: a selection of which no category resolves has ended in the
\* Error state, shown as the error panel.
C6_Witness ==
  /\ categories = <<"tech">>
  /\ loads = <<>>
  /\ ErrorState
  /\ error = ErrNoValid
  /\ enabled /\ Display = "error-panel"

\* -------------------------------------------------- service worker: claims

\* C7: a wallpaper GET with no cached copy and a reachable network is
\* answered with the network response, and that response is stored in the
\* WALLPAPER store when the pending put lands (on the store that was opened);
\* with no cached copy and no usable network answer the handler answers with
\* the 404 'unavailable' response, and its promise never rejects.
C7_WallpaperFromNetworkOrUnavailable ==
  [][\A f \in 1..MaxFetch :
       /\ (fetches[f].pc = "w-fetch" /\ fetches'[f].pc = "w-put") =>
            /\ fetches'[f].reply = NetworkOk(<<"fetch", f>>)
            /\ WALLPAPER_CACHE_NAME(active) \in Range(cacheNames')
       /\ (fetches[f].pc = "w-put" /\ fetches'[f].pc = "done"
             /\ fetches[f].cache.attached) =>
            /\ fetches'[f].reply = fetches[f].reply
            /\ CacheMatch(cacheEntries'[WALLPAPER_CACHE_NAME(active)], fetches[f].url)
                 = fetches[f].reply
       /\ (fetches[f].pc = "w-fetch" /\ fetches'[f].pc = "done") =>
            fetches'[f].reply = Unavailable
       /\ fetches'[f].reply # Rejected]_vars

\* C7 witness: one interception answered from the network with its response
\* stored in the WALLPAPER store, another answered with the 404 response.
C7_Witness ==
  /\ fetches[1].pc = "done"
  /\ fetches[1].reply = NetworkOk(<<"fetch", 1>>)
  /\ CacheMatch(cacheEntries[WALLPAPER_CACHE_NAME(active)], fetches[1].url)
       = NetworkOk(<<"fetch", 1>>)
  /\ fetches[2].pc = "done"
  /\ fetches[2].reply = Unavailable
  /\ fetches[2].url # fetches[1].url

ReplyCount(reply, name) ==
  IF \E i \in 1..Len(reply) : reply[i].name = name
    THEN reply[CHOOSE i \in 1..Len(reply) : reply[i].name = name].count
    ELSE 0

\* The UI has sent CACHE_WALLPAPERS [a, b] and then GET_CACHE_STATUS, the
\* reply has arrived and both fetches of the run have succeeded.
SeedThenStatus ==
  /\ Len(uiSent) = 2
  /\ uiSent[1].type = "CACHE_WALLPAPERS"
  /\ uiSent[1].images = <<WallpaperA, WallpaperB>>
  /\ uiSent[2].type = "GET_CACHE_STATUS"
  /\ statusReply # NoReply
  /\ \E t \in 1..MaxSeed : seeds[t].pc = "done" /\ seeds[t].oks = {1, 2}

\* C9 (as stated): from clean stores, CACHE_WALLPAPERS [a, b] with both
\* fetches succeeding followed by GET_CACHE_STATUS gets a reply whose
\* WALLPAPER count is 2.
C9_StatusAfterSend ==
  SeedThenStatus => ReplyCount(statusReply, WALLPAPER_CACHE_NAME(active)) = 2

\* C9 (amended): the same, with GET_CACHE_STATUS sent once the
\* cacheWallpapers run has ended.
C9_StatusAfterRunEnds ==
  (SeedThenStatus /\ uiSent[2].settled) =>
     ReplyCount(statusReply, WALLPAPER_CACHE_NAME(active)) = 2

\* C9 witness: the reply to a GET_CACHE_STATUS sent after the run ended
\* reports two WALLPAPER entries.
C9_Witness ==
  /\ SeedThenStatus
  /\ uiSent[2].settled
  /\ statusReply = <<[name |-> WALLPAPER_CACHE_NAME(active), count |-> 2]>>

\* The UI has sent the same CACHE_WALLPAPERS message twice and nothing else.
SameSetTwice ==
  /\ Len(uiSent) = 2
  /\ uiSent[1].type = "CACHE_WALLPAPERS"
  /\ uiSent[2].type = "CACHE_WALLPAPERS"
  /\ uiSent[1].images = uiSent[2].images

\* C10: when the second of two cacheWallpapers runs on the same image list
\* ends, with the same fetches succeeding as in the first, the WALLPAPER
\* store holds the same keys, and as many entries, as when the first ended.
C10_SeedTwiceSameEntries ==
  [][\A t \in 1..MaxSeed : \A u \in 1..MaxSeed \ {t} :
       (/\ SameSetTwice
        /\ seeds[u].pc = "done"
        /\ seeds[t].pc = "loop"
        /\ seeds'[t].pc = "done"
        /\ seeds'[t].oks = seeds[u].oks) =>
          /\ Keys(cacheEntries'[WALLPAPER_CACHE_NAME(active)]) = Keys(onceEntries)
          /\ Len(cacheEntries'[WALLPAPER_CACHE_NAME(active)]) = Len(onceEntries)]_vars

\* C10 witness: two runs on [a, b] have ended, every fetch succeeded in
\* both, and the WALLPAPER store holds two entries.
C10_Witness ==
  /\ SameSetTwice
  /\ uiSent[1].images = <<WallpaperA, WallpaperB>>
  /\ \A t \in 1..2 : seeds[t].pc = "done" /\ seeds[t].oks = {1, 2}
  /\ Keys(cacheEntries[WALLPAPER_CACHE_NAME(active)]) = {WallpaperA, WallpaperB}
  /\ Len(cacheEntries[WALLPAPER_CACHE_NAME(active)]) = 2
  /\ Len(onceEntries) = 2

\* ------------------------------------------------ fetch handlers: claims

\* An interception of a GET for '/index.html' has been answered with the copy
\* that install cached.
AnsweredFromShell ==
  \E f \in 1..MaxFetch :
    /\ fetches[f].pc = "done"
    /\ fetches[f].url = IndexHtml
    /\ fetches[f].reply = NetworkOk(<<"install", 1>>)

\* C11: once a static request has been answered from the cache, the STATIC
\* store comes to hold a newer response for it than the one it answered
\* with (the background re-fetch refreshes the store).
C11_CachedShellIsRefreshed ==
  AnsweredFromShell ~>
    (CacheMatch(cacheEntries[STATIC_CACHE_NAME(active)], IndexHtml)
       # NetworkOk(<<"install", 1>>))

\* C12: a navigation in the static handler whose fetch failed is answered
\* with the cached '/index.html' when a store holds one, and is rejected only
\* when none does.
C12_NavigationFallsBackToIndex ==
  [][\A f \in 1..MaxFetch :
       /\ (fetches[f].pc = "s-fetch" /\ fetches[f].mode = "navigate"
             /\ fetches'[f].pc = "done") =>
            fetches'[f].reply = NetworkNotOk(<<"fetch", f>>)
       /\ (fetches[f].pc = "s-index" /\ fetches'[f] # fetches[f]) =>
            /\ fetches'[f].pc = "done"
            /\ CachesMatch(IndexHtml) # NoResponse =>
                 fetches'[f].reply = CachesMatch(IndexHtml)
            /\ CachesMatch(IndexHtml) = NoResponse =>
                 fetches'[f].reply = Rejected]_vars

\* C12 witness: a navigation to a document that no store holds, with the
\* network failing, has been answered with the '/index.html' of install.
C12_Witness ==
  \E f \in 1..MaxFetch :
    /\ fetches[f].pc = "done"
    /\ fetches[f].url = AboutHtml
    /\ fetches[f].mode = "navigate"
    /\ CachesMatch(AboutHtml) = NoResponse
    /\ fetches[f].reply = NetworkOk(<<"install", 1>>)

\* C13: the network-first handler answers with the network response, and an
\* ok response is stored in the RUNTIME store when the pending put lands; when
\* the fetch fails it answers with the copy that caches.match finds in any
\* store, and is rejected when there is none.
C13_NetworkFirst ==
  [][\A f \in 1..MaxFetch :
       /\ (fetches[f].pc = "n-fetch" /\ fetches'[f].pc = "n-put") =>
            /\ fetches'[f].reply = NetworkOk(<<"fetch", f>>)
            /\ CACHE_NAME(active) \in Range(cacheNames')
       /\ (fetches[f].pc = "n-fetch" /\ fetches'[f].pc = "done") =>
            fetches'[f].reply = NetworkNotOk(<<"fetch", f>>)
       /\ (fetches[f].pc = "n-put" /\ fetches'[f].pc = "done"
             /\ fetches[f].cache.attached) =>
            /\ fetches'[f].reply = fetches[f].reply
            /\ CacheMatch(cacheEntries'[CACHE_NAME(active)], fetches[f].url)
                 = fetches[f].reply
       /\ (fetches[f].pc = "n-match" /\ fetches'[f] # fetches[f]) =>
            /\ fetches'[f].pc = "done"
            /\ fetches'[f].reply =
                 IF CachesMatch(fetches[f].url) # NoResponse
                   THEN CachesMatch(fetches[f].url) ELSE Rejected]_vars

\* C13 witness: '/manifest.json' was fetched and stored in the RUNTIME store
\* by one interception, and another, with the network failing, was answered
\* with a cached copy.
C13_Witness ==
  /\ fetches[1].pc = "done"
  /\ fetches[1].url = ManifestJson
  /\ fetches[1].reply = NetworkOk(<<"fetch", 1>>)
  /\ CacheMatch(cacheEntries[CACHE_NAME(active)], ManifestJson)
       = NetworkOk(<<"fetch", 1>>)
  /\ fetches[2].pc = "done"
  /\ fetches[2].url = ManifestJson
  /\ fetches[2].reply = NetworkOk(<<"fetch", 1>>)

\* C14: a request of a method other than GET is not responded to, and the
\* step that takes it changes no store.
C14_NonGetPassesThrough ==
  [][\A f \in 1..MaxFetch :
       (fetches'[f] # fetches[f] /\ fetches'[f].method # "GET") =>
          /\ fetches'[f].pc = "passthrough"
          /\ fetches'[f].reply = NoResponse
          /\ fetches'[f].cache = NoCache
          /\ cacheNames' = cacheNames
          /\ cacheEntries' = cacheEntries]_vars

\* C14 witness: a POST has passed through while the stores hold entries and
\* another interception is under way.
C14_Witness ==
  /\ fetches[1].pc = "passthrough"
  /\ fetches[1].method = "POST"
  /\ fetches[2].pc = "n-put"
  /\ cacheEntries[STATIC_CACHE_NAME(active)] # <<>>

\* The tier whose pattern a URL matches: the wallpaper prefix, the shell
\* (the install list and the static branch of the listener), the rest.
TierOf(url) ==
  IF IsWallpaperPath(url) THEN "wallpapers"
  ELSE IF IsStaticPath(url) \/ url \in Range(STATIC_ASSETS) THEN "static"
  ELSE "runtime"

\* C19: every entry of a store has a URL of that store's tier.
C19_EntriesMatchTier ==
  \A n \in Range(cacheNames) :
    \A key \in Keys(cacheEntries[n]) : n.tier = TierOf(key)

\* C15: when a clearAllCaches run completes, no store exists, whatever
\* interceptions were under way while it ran.
C15_ClearLeavesNoStore ==
  [][(clearing.pc # "idle" /\ clearing'.pc = "idle") => cacheNames' = <<>>]_vars

\* -------------------------------------------------- control channel: claims

\* The functions that wrap sendMessageToServiceWorker in a try/catch.
WrappedTypes == {"CACHE_WALLPAPERS", "CLEAR_CACHE", "GET_CACHE_STATUS"}

\* C16: cacheWallpapers, clearServiceWorkerCache and getCacheStatus never
\* raise to their caller: once the underlying promise has settled, by a reply,
\* by the 5 s timeout or because there is no controller, the call has
\* resolved.  getCacheStatus resolves to the mapping the worker sent when the
\* reply came first, and to the empty mapping on a timeout or without a
\* controller.
C16_CallsAlwaysResolve ==
  \A c \in 1..MaxMessages :
    calls[c].kind \in WrappedTypes =>
      /\ calls[c].result # "raised"
      /\ calls[c].promise \in {"resolved", "rejected"} => calls[c].result = "resolved"
      /\ (calls[c].kind = "GET_CACHE_STATUS" /\ calls[c].promise = "resolved") =>
           /\ calls[c].returned = calls[c].value
           /\ calls[c].returned # NoReply
      /\ (calls[c].kind = "GET_CACHE_STATUS" /\ calls[c].promise = "rejected") =>
           calls[c].returned = EmptyStatus

\* One status request was answered with a non-empty mapping, another one ran
\* into the timeout before the worker answered.
C16_Witness ==
  \E c, d \in 1..MaxMessages :
    /\ calls[c].kind = "GET_CACHE_STATUS"
    /\ calls[c].promise = "resolved"
    /\ calls[c].returned # EmptyStatus
    /\ calls[d].kind = "GET_CACHE_STATUS"
    /\ calls[d].promise = "rejected"
    /\ calls[d].timer = "fired"
    /\ calls[d].msg = "received"
    /\ calls[d].result = "resolved"

\* C17: a message arrives on the port of a call only when that call is a
\* GET_CACHE_STATUS request and the worker is answering that very request;
\* SKIP_WAITING, CACHE_WALLPAPERS and CLEAR_CACHE calls never get a reply, so
\* their promise is never resolved.
C17_OnlyStatusReplies ==
  [][\A c \in 1..MaxMessages :
       /\ (calls'[c].port # NoReply /\ calls'[c].port # calls[c].port) =>
            /\ calls[c].kind = "GET_CACHE_STATUS"
            /\ calls[c].msg = "received"
            /\ statusPort = c
            /\ calls'[c].port = status.counts
       /\ calls'[c].promise = "resolved" => calls'[c].kind = "GET_CACHE_STATUS"]_vars

\* A status request has its reply in its port while a message of another
\* kind has been handled by the worker and got nothing.
C17_Witness ==
  \E c, d \in 1..MaxMessages :
    /\ calls[c].kind = "GET_CACHE_STATUS"
    /\ calls[c].port # NoReply
    /\ calls[d].kind \in {"SKIP_WAITING", "CACHE_WALLPAPERS", "CLEAR_CACHE"}
    /\ calls[d].msg = "received"
    /\ calls[d].port = NoReply
    /\ calls[d].promise = "pending"

\* ---------------------------------------------------------- install: claims

\* C18: whatever the fetches of the install do, the promise handed to
\* event.waitUntil never rejects, and an install that has started ends with
\* that promise resolved and the priority-wallpaper prefetch finished.
C18_InstallAlwaysCompletes ==
  /\ [](install.settled # "rejected")
  /\ (install.settled = "pending") ~>
       (install.settled = "resolved" /\ install.priority = "done")

\* An install whose shell could not be cached and whose prefetch lost some of
\* its images has completed.
C18_Witness ==
  /\ install.settled = "resolved"
  /\ install.shell = "failed"
  /\ install.priority = "done"
  /\ worker.installed
  /\ Len(cacheEntries[WALLPAPER_CACHE_NAME(active + 1)]) = 2

\* ------------------------------------------------------- activation: claims

\* C20: a client is never controlled by a worker other than the active one,
\* and the step that makes the new deployment's worker the active one leaves
\* every open client controlled by it.
C20_OneActiveController ==
  /\ [](\A c \in 1..MaxClients : clients[c] \in {Closed, Uncontrolled, active})
  /\ [][active' # active =>
          \A c \in 1..MaxClients : clients'[c] # Closed => clients'[c] = active']_vars

\* Deployment 2 has been activated and controls every page of the origin,
\* all of them open.
C20_Witness ==
  /\ active = 2
  /\ worker = NoWorker
  /\ \A c \in 1..MaxClients : clients[c] = 2

\* ---------------------------------------------------- concurrent writers

\* The number of entries a store holds for a URL.
EntriesFor(entries, key) ==
  Cardinality({i \in 1..Len(entries) : entries[i].key = key})

\* C21: whenever a write of a wallpaper lands, by an interception's
\* cache.put or by a cacheWallpapers run's, the WALLPAPER store then holds
\* exactly one entry for that URL and it is the response just written,
\* whatever other writers of the same URL are under way or have written.
C21_LastWriteWins ==
  [][LET store == cacheEntries'[WALLPAPER_CACHE_NAME(active)] IN
       /\ \A f \in 1..MaxFetch :
            (fetches[f].pc = "w-put" /\ fetches'[f].pc = "done") =>
              /\ EntriesFor(store, fetches[f].url) = 1
              /\ CacheMatch(store, fetches[f].url) = fetches[f].reply
       /\ \A t \in 1..MaxSeed :
            (seeds[t].pc = "loop" /\ seeds'[t].oks # seeds[t].oks) =>
              /\ EntriesFor(store, seeds[t].images[seeds[t].i]) = 1
              /\ CacheMatch(store, seeds[t].images[seeds[t].i])
                   = NetworkOk(<<"seed", t>>)]_vars

\* Two interceptions of the same wallpaper both missed the cache, fetched
\* and wrote, and a cacheWallpapers run wrote the same URL after them: the
\* store holds the one entry of the run.
C21_Witness ==
  /\ \A f \in 1..MaxFetch :
       /\ fetches[f].pc = "done"
       /\ fetches[f].url = WallpaperA
       /\ fetches[f].reply = NetworkOk(<<"fetch", f>>)
  /\ \E t \in 1..MaxSeed :
       /\ seeds[t].pc = "done"
       /\ seeds[t].oks = {1}
       /\ cacheEntries[WALLPAPER_CACHE_NAME(active)]
            = <<[key |-> WallpaperA, resp |-> NetworkOk(<<"seed", t>>)]>>

\* ------------------------------------------------ rotation: further claims

\* C22 (as claimed): a change of the rotation interval with a non-empty
\* selection starts a load as a category change does: the hook is loading
\* and one more loadImages invocation is resolving.
C22_IntervalChangeReloads ==
  [][(rotationInterval' # rotationInterval /\ Len(categories) > 0) =>
       /\ isLoading'
       /\ Len(loads') = Len(loads) + 1
       /\ loads'[Len(loads')].pc = "resolving"]_vars

\* C23: whenever the timer is armed with more than one image available, a
\* tick can pick each index 0..|availableImages|-1, the index of the image on
\* display included.
C23_AnyIndexMayBePicked ==
  (timerArmed /\ Len(availableImages) > 1) =>
    \A i \in 0..(Len(availableImages) - 1) :
      ENABLED (TimerTick /\ currentIndex' = i /\ UNCHANGED <<swVars, uiVars>>)

\* Two ticks in a row have picked the same index, that of the image now on
\* display.
C23_Witness ==
  /\ Len(availableImages) > 1
  /\ Len(tickLog) = 2
  /\ tickLog[1] = tickLog[2]
  /\ currentIndex = tickLog[2]
  /\ currentImage = availableImages[currentIndex + 1]

\* C24: a timer is armed only while rotation is enabled and more than one
\* image is available, and a step that changes the image on display without
\* a load starting or ending, a tick, is taken only then.
C24_TimerNeedsTwoImages ==
  /\ [](timerArmed => (enabled /\ Len(availableImages) > 1))
  /\ [][(/\ currentImage' # currentImage
         /\ loads' = loads
         /\ categories' = categories)
          => (enabled /\ Len(availableImages) > 1 /\ timerArmed)]_vars

\* Rotation is enabled and the load has ended with exactly one image: the
\* interval effect has run and armed no timer.
C24_Witness ==
  /\ enabled
  /\ Len(availableImages) = 1
  /\ currentImage = availableImages[1]
  /\ loads = <<>>
  /\ ~isLoading
  /\ ~timerArmed

\* C25: a step in which a preload settles, that of loadImages or one of
\* nextImage, with whatever result, leaves availableImages, currentImage,
\* currentIndex and error as they are; and while preloads are under way an
\* armed timer can still tick and put each available image on display.
C25_PreloadIsSideEffectOnly ==
  /\ [][(\/ \E p \in 1..Len(loads) :
              loads[p].pc = "preloading" /\ loads' = RemoveAt(loads, p)
         \/ preloads'.pending < preloads.pending)
          => UNCHANGED <<availableImages, currentImage, currentIndex, error>>]_vars
  /\ []((/\ timerArmed
         /\ \/ preloads.pending > 0
            \/ \E p \in 1..Len(loads) : loads[p].pc = "preloading")
          => \A i \in 0..(Len(availableImages) - 1) :
               ENABLED (/\ TimerTick
                        /\ currentImage' = availableImages[i + 1]
                        /\ UNCHANGED <<swVars, uiVars>>))

\* The preload of loadImages has ended with a warning (a load failed or the
\* call rejected), the images are on display without an error, ticks have
\* picked since, and preloads of nextImage are still under way.
C25_Witness ==
  /\ preloads.warned
  /\ preloads.pending = MaxPreloads
  /\ loads = <<>>
  /\ ~isLoading
  /\ error = NoError
  /\ Len(availableImages) > 1
  /\ Len(tickLog) = MaxTicks
  /\ currentImage = availableImages[tickLog[MaxTicks] + 1]

\* The selection resolves to images and to failed categories as well.
PartlyResolvable ==
  /\ Len(getImagesWithFallback(categories).images) > 0
  /\ Len(getImagesWithFallback(categories).errors) > 0

\* C26: with the selection held, the step in which the resolver returns
\* (rather than throws) images together with failed categories installs
\* those images with error null and an image of a category that resolved on
\* display, and the hook then reaches Ready with such an image.
C26_PartialErrorsDoNotBlock ==
  /\ [][\A p \in 1..Len(loads) :
          (/\ PartlyResolvable
           /\ loads[p].pc = "resolving"
           /\ loads' # loads
           /\ error' # ErrFailed)
            => /\ Len(loads') = Len(loads)
               /\ loads'[p].pc = "preloading"
               /\ error' = NoError
               /\ availableImages' = getImagesWithFallback(categories).images
               /\ currentImage' \in Range(availableImages')
               /\ currentImage'.category
                    \notin Range(getImagesWithFallback(categories).errors)]_vars
  /\ (PartlyResolvable /\ AnyResolving)
       ~> ((ReadyWithImage /\ loads = <<>>) \/ error = ErrFailed)

\* "tech" has failed and "nature" has resolved: the hook is Ready with a
\* nature image and no error.
C26_Witness ==
  /\ categories = <<"tech", "nature">>
  /\ PartlyResolvable
  /\ ReadyWithImage
  /\ loads = <<>>
  /\ currentImage.category = "nature"
  /\ Len(availableImages) = 2

\* -------------------------------------------------- install: further claims

\* The URLs of the first n manifest images of a category.
FirstOfCategory(category, n) ==
  {PriorityImageUrl(category, ManifestImages(category)[i]) :
     i \in 1..(IF Len(ManifestImages(category)) < n
                 THEN Len(ManifestImages(category)) ELSE n)}

\* C27: the WALLPAPER store of the installing worker holds, at every moment
\* of the install, only URLs among the first MAX_WALLPAPERS_PER_CATEGORY
\* manifest images of the priority categories, hence at most
\* |PRIORITY_WALLPAPER_CATEGORIES| x MAX_WALLPAPERS_PER_CATEGORY entries.
C27_PrefetchIsBounded ==
  LET store == cacheEntries[WALLPAPER_CACHE_NAME(active + 1)] IN
    /\ Keys(store) \subseteq
         UNION {FirstOfCategory(PRIORITY_WALLPAPER_CATEGORIES[k],
                                MAX_WALLPAPERS_PER_CATEGORY) :
                  k \in 1..Len(PRIORITY_WALLPAPER_CATEGORIES)}
    /\ Len(store) <= Len(PRIORITY_WALLPAPER_CATEGORIES) * MAX_WALLPAPERS_PER_CATEGORY
    /\ Len(store) = Cardinality(Keys(store))

\* The prefetch has ended with every fetch successful: the five first nature
\* images and the one motivational image are stored, the sixth nature image
\* and the image of the other category are not.
C27_Witness ==
  /\ install.priority = "done"
  /\ Keys(cacheEntries[WALLPAPER_CACHE_NAME(active + 1)])
       = FirstOfCategory("nature", MAX_WALLPAPERS_PER_CATEGORY)
           \cup {PriorityImageUrl("motivational", "m1.jpg")}
  /\ Len(cacheEntries[WALLPAPER_CACHE_NAME(active + 1)]) = MAX_WALLPAPERS_PER_CATEGORY + 1

\* ---------------------------------------- resolver and preloader: claims

RECURSIVE LenBefore(_, _)
\* The number of images of the first k categories of cats.
LenBefore(cats, k) ==
  IF k = 0 THEN 0 ELSE LenBefore(cats, k - 1) + Len(ManifestOf(cats[k]))

\* C28: the images returned for cats are, for each category in input order,
\* its manifest images in manifest order, a category given twice giving its
\* images twice; the errors are the categories without images, and they take
\* no image of another category away.
C28_ResolveOrder ==
  (probe.fn = "resolve" /\ probe.settled = "resolved") =>
    LET cats == probe.categories IN
      /\ Len(probe.images) = LenBefore(cats, Len(cats))
      /\ \A k \in 1..Len(cats) : \A j \in 1..Len(ManifestOf(cats[k])) :
           probe.images[LenBefore(cats, k - 1) + j]
             = [category |-> cats[k], filename |-> ManifestOf(cats[k])[j]]
      /\ Range(probe.errors) = {c \in Range(cats) : ManifestOf(c) = <<>>}
      /\ Len(probe.errors)
           = Cardinality({k \in 1..Len(cats) : ManifestOf(cats[k]) = <<>>})

\* "nature" was given twice around a category the manifest lacks: its two
\* images are returned twice and the missing category is reported.
C28_Witness ==
  /\ probe.fn = "resolve"
  /\ probe.settled = "resolved"
  /\ probe.categories = <<"nature", "space", "nature">>
  /\ Len(probe.images) = 4
  /\ probe.images[1] = probe.images[3]
  /\ probe.errors = <<"space">>

RECURSIVE LoadedBefore(_, _)
\* The number of loads that succeeded among the first k.
LoadedBefore(outcomes, k) ==
  IF k = 0 THEN 0
  ELSE LoadedBefore(outcomes, k - 1) + (IF outcomes[k] = "loaded" THEN 1 ELSE 0)

\* C29: a call of the preloader resolves whatever the loads do, and its
\* result is the descriptors whose load succeeded, each at the place its
\* order gives it.
C29_PreloadNeverRejects ==
  (probe.fn = "preload" /\ probe.settled # "pending") =>
    /\ probe.settled = "resolved"
    /\ Len(probe.images) = LoadedBefore(probe.outcomes, Len(probe.outcomes))
    /\ \A k \in 1..Len(probe.outcomes) :
         probe.outcomes[k] = "loaded" =>
           probe.images[LoadedBefore(probe.outcomes, k)] = probe.descriptors[k]

\* Of three descriptors one failed, one timed out and the last one loaded:
\* the call resolved with the last.
C29_Witness ==
  /\ probe.fn = "preload"
  /\ probe.settled = "resolved"
  /\ probe.outcomes = <<"failed", "timeout", "loaded">>
  /\ probe.images = <<probe.descriptors[3]>>

\* ------------------------------------------------ rotation: overlapping loads

\* C31: once no resolution is in flight, the images installed are those
\* resolved for the latest (non-empty) selection and the image on display is
\* one of them, whichever resolution finished last.
C31_LatestSelectionWins ==
  (loads = <<>> /\ categories # <<>> /\ availableImages # <<>>) =>
    /\ availableImages = getImagesWithFallback(categories).images
    /\ currentImage \in Range(availableImages)

\* C33: an error that is set means that no image is installed and none is on
\* display; an image and an error are never present together.
C33_ErrorMeansNoImage ==
  error # NoError => (availableImages = <<>> /\ currentImage = NullImage)

\* ------------------------------------------- control channel: one settlement

\* C32: the promise of sendMessageToServiceWorker settles once.  It becomes
\* resolved only with the reply that reached its port while the 5 s timer had
\* not fired, and rejected only by that timer firing (or at once without a
\* controller); once settled, neither a reply nor the timer changes the
\* outcome or the value.
C32_SettlesOnce ==
  [][\A c \in 1..MaxMessages :
       /\ calls[c].promise \in {"resolved", "rejected"} =>
            /\ calls'[c].promise = calls[c].promise
            /\ calls'[c].value = calls[c].value
            /\ calls'[c].result = calls[c].result
       /\ (calls[c].promise = "pending" /\ calls'[c].promise = "resolved") =>
            /\ calls[c].port # NoReply
            /\ calls[c].timer = "armed"
            /\ calls'[c].value = calls[c].port
       /\ (calls[c].promise = "pending" /\ calls'[c].promise = "rejected") =>
            /\ calls[c].timer = "armed"
            /\ calls'[c].timer = "fired"
            /\ calls'[c].value = NoReply]_vars

\* One call was resolved by its reply and its timer has fired since; another
\* was rejected by its timer and the reply has reached its port since.
C32_Witness ==
  \E c, d \in 1..MaxMessages :
    /\ calls[c].promise = "resolved"
    /\ calls[c].value # NoReply
    /\ calls[c].timer = "fired"
    /\ calls[d].promise = "rejected"
    /\ calls[d].timer = "fired"
    /\ calls[d].port # NoReply

\* ------------------------------------------------------------ stores: claims

\* The responses held by the stores.
StoredResponses ==
  UNION {{cacheEntries[n][i].resp : i \in 1..Len(cacheEntries[n])} : n \in StoreNames}

\* C34: every response held by a store is a success response, whichever of
\* the fetch strategies, the install prefetch or a CACHE_WALLPAPERS run wrote
\* it; and when the network fetch of the wallpaper strategy has settled, the
\* handler either goes on to store the ok response or answers with the
\* unavailable (404) response.
C34_OnlyOkStored ==
  /\ [](\A n \in StoreNames : \A i \in 1..Len(cacheEntries[n]) :
          cacheEntries[n][i].resp.ok)
  /\ [][\A f \in 1..MaxFetch :
          (fetches[f].pc = "w-fetch" /\ fetches'[f].pc # "w-fetch") =>
            \/ fetches'[f].pc = "w-put" /\ fetches'[f].reply.ok
            \/ fetches'[f].pc = "done" /\ fetches'[f].reply = Unavailable]_vars

\* The stores hold responses written by an interception in each of the three
\* tiers, by a CACHE_WALLPAPERS run and by the install, and a wallpaper
\* request has just been answered with the unavailable response.
C34_Witness ==
  /\ \E f \in 1..MaxFetch :
       /\ fetches[f].pc = "done"
       /\ IsWallpaperPath(fetches[f].url)
       /\ fetches[f].reply = Unavailable
  /\ \A n \in CurrentNames(1) : cacheEntries[n] # <<>>
  /\ \E r \in StoredResponses : r.by[1] = "seed"
  /\ \E r \in StoredResponses : r.by[1] = "fetch"
  /\ HasKey(cacheEntries[WALLPAPER_CACHE_NAME(2)],
            PriorityImageUrl("motivational", "m1.jpg"))
  /\ cacheEntries[STATIC_CACHE_NAME(2)] # <<>>

\* C35: the static shell list is cached whole or not at all.  When addAll
\* has failed the install has stored no static asset and never calls
\* skipWaiting; when it has succeeded the store holds the whole list; and
\* skipWaiting has been called only when both the static caching and the
\* wallpaper prefetch have completed.
C35_StaticShellAllOrNothing ==
  LET shell == cacheEntries[STATIC_CACHE_NAME(active + 1)] IN
    /\ install.shell \in {"open", "addAll", "failed"} => shell = <<>>
    /\ install.shell = "failed" => ~install.skipWaiting
    /\ install.shell = "ok" => Keys(shell) = Range(STATIC_ASSETS)
    /\ install.skipWaiting =>
         /\ install.shell = "ok"
         /\ install.priority = "done"
         /\ install.settled = "resolved"

\* addAll has failed and the install has ended without skipWaiting while the
\* prefetch stored a wallpaper.
C35_Witness ==
  /\ install.shell = "failed"
  /\ install.settled = "resolved"
  /\ ~install.skipWaiting
  /\ cacheEntries[STATIC_CACHE_NAME(active + 1)] = <<>>
  /\ cacheEntries[WALLPAPER_CACHE_NAME(active + 1)] # <<>>

\* ------------------------------------------------------ focus timer: claims

\* C36: a running timer has time remaining; an alarm on display means the
\* timer is not running and no time remains; Start with a set time of zero
\* changes nothing; and while the timer runs no handler, the input and wheel
\* handlers included, changes hours, minutes or seconds.
C36_TimerInvariant ==
  /\ [](state.isRunning => state.timeRemaining > 0)
  /\ [](state.showAlarm => (~state.isRunning /\ state.timeRemaining = 0))
  /\ [][(totalSeconds(state) = 0 /\ timerLog'.handler = "start") =>
          (state' = state /\ intervalRef' = intervalRef)]_vars
  /\ [][state.isRunning =>
          /\ state'.hours = state.hours
          /\ state'.minutes = state.minutes
          /\ state'.seconds = state.seconds]_vars

\* The timer is running, has ticked, and the last thing that happened was a
\* change event of an input.
C36_Witness ==
  /\ state.isRunning
  /\ timerLog.handler = "input"
  /\ timerLog.ticks > 0
  /\ state.timeRemaining > 0

\* C37: a timer started with N > 0 seconds has N minus the number of ticks
\* remaining while it runs, each tick taking exactly one second off; the tick
\* that ends the run is the N-th and leaves the alarm state with no interval
\* set; Stop leaves isRunning false and timeRemaining 0 without the alarm;
\* and a running timer always comes to a stop.
C37_CountdownReachesAlarm ==
  /\ [](state.isRunning =>
          /\ timerLog.started > 0
          /\ timerLog.ticks < timerLog.started
          /\ state.timeRemaining = timerLog.started - timerLog.ticks
          /\ intervalRef = "live")
  /\ []((timerLog.handler = "tick" /\ ~state.isRunning) =>
          /\ timerLog.ticks = timerLog.started
          /\ state.showAlarm
          /\ state.timeRemaining = 0
          /\ intervalRef = "null")
  /\ [][(timerLog'.handler = "tick" /\ timerLog'.ticks = timerLog.ticks + 1) =>
          \/ state'.timeRemaining = state.timeRemaining - 1 /\ state'.isRunning
          \/ state.timeRemaining = 1 /\ state'.timeRemaining = 0 /\ state'.showAlarm]_vars
  /\ [][(state.isRunning /\ timerLog'.handler = "stop") =>
          /\ ~state'.isRunning
          /\ state'.timeRemaining = 0
          /\ ~state'.showAlarm
          /\ intervalRef' = "null"]_vars
  /\ (state.isRunning ~> ~state.isRunning)

\* A timer started with three seconds has ticked three times and shows the
\* alarm.
C37_Witness ==
  /\ state.showAlarm
  /\ ~state.isRunning
  /\ timerLog.handler = "tick"
  /\ timerLog.started = 3
  /\ timerLog.ticks = 3
  /\ intervalRef = "null"

\* --------------------------------------------------------- settings: claims

\* C38: once the settings are loaded, wallpaperEnabled is true exactly when
\* displayMode is 'wallpaper', in the stored settings and in the app state,
\* whatever toggles follow, and Wallpaper and FocusTimer are never rendered
\* together; and the load itself leaves displayMode 'digital-clock' and
\* wallpaperEnabled false whatever was stored.
C38_WallpaperIffWallpaperMode ==
  /\ [](isLoaded =>
          /\ storedSettings.wallpaperEnabled <=> storedSettings.displayMode = "wallpaper"
          /\ appState.wallpaperEnabled <=> appState.displayMode = "wallpaper"
          /\ ~(shouldRenderWallpaper /\ shouldRenderFocusTimer))
  /\ [][(~isLoaded /\ isLoaded') =>
          /\ storedSettings'.displayMode = "digital-clock"
          /\ ~storedSettings'.wallpaperEnabled
          /\ appState'.displayMode = "digital-clock"
          /\ ~appState'.wallpaperEnabled]_vars

\* Show Wallpapers has been switched on after the load, with settings that
\* differ from the defaults in time format and categories.
C38_Witness ==
  /\ isLoaded
  /\ shouldRenderWallpaper
  /\ appState.wallpaperEnabled
  /\ storedSettings.timeFormat = "24h"
  /\ storedSettings.selectedCategories = <<>>

====
